---- MODULE Spec2Model ----
(***************************************************************************)
(* State-machine model of strands-swarms: the task lifecycle (task.py),    *)
(* the per-query worker/task registry (definition.py), the ordering of     *)
(* hook callbacks per event kind (events.py), the module-level registry of *)
(* the planning tools (orchestrator.py, swarm.py) and the streaming        *)
(* pipeline (dynamic_swarm.py).                                            *)
(*                                                                         *)
(* Python values are encoded as follows.                                   *)
(*   - `None` is the empty sequence, a present value x is <<x>>            *)
(*     (so Optional[list] is None or <<list>>).                            *)
(*   - A dict is the sequence of its values in insertion order; every      *)
(*     value carries its key in the field `name`.                          *)
(*   - datetime.now() is the value of a strictly increasing clock.         *)
(***************************************************************************)
EXTENDS Naturals, Sequences, FiniteSets, TLC

VARIABLES
    tm_tasks,       \* TaskManager._tasks: dict name -> Task
    clock,          \* source of datetime.now()
    sub_agents,     \* SwarmDefinition.sub_agents: dict name -> AgentDefinition
    tasks,          \* SwarmDefinition.tasks: dict name -> TaskDefinition
    color_index,    \* SwarmDefinition._color_index
    callbacks,      \* HookRegistry: event kind -> callbacks in registration order
    delivered,      \* callbacks invoked by the most recent emit, in order
    last,           \* the most recent call: operation, argument object, raised error
    emitted,        \* the events the most recent call passed to _emit, in order
    event_log,      \* every event passed to _emit while the manager is observed
    threads,        \* per calling thread: its position in a lifecycle call and its locals
    runs,           \* per execute_async call: its position, its SwarmConfig, its hook sink
    swarm_config,   \* orchestrator._swarm_config: None or the run whose config it refers to
    hook_registry,  \* orchestrator._hook_registry: None or the run whose registry it refers to
    pc,             \* position of one pipeline run (stream_async, or execute_async of swarm.py)
    stream,         \* the types of the events stream_async has yielded, in order
    planning_result,    \* _PlanningResult returned by _run_planning, or None
    execution_result,   \* GraphResult captured from the engine's stream, or None
    execution_error,    \* str(e) of the exception caught around the engine's stream
    final_response,     \* what _synthesize_final_response returned
    swarm_result,   \* the DynamicSwarmResult of the swarm_result event, or None
    calls,          \* how often each collaborator was invoked
    raised,         \* the exceptions the collaborators raised: who and str(e)
    engine_events,  \* the types of the events the engine's stream produced, in order
    tool_result,    \* the most recent orchestrator tool call: returned text or exception
    registry_config,    \* DynamicRegistry._execution_mode and ._entry_task
    current_task,   \* the local current_task of the streamed execution of dynamic.py
    graph           \* what build_swarm returned: None, or the built graph

\* the state of the components that are not part of a TaskManager, a
\* SwarmDefinition or a HookRegistry
run_vars == <<runs, swarm_config, hook_registry>>

stream_vars == <<pc, stream, planning_result, execution_result, execution_error,
                 final_response, swarm_result, calls, raised, engine_events>>

tool_vars == <<tool_result, registry_config, current_task>>

build_vars == <<graph>>

flow_vars == <<run_vars, stream_vars, tool_vars, build_vars>>

pipeline_vars == <<event_log, threads, flow_vars>>

vars == <<tm_tasks, clock, sub_agents, tasks, color_index, callbacks, delivered,
          last, emitted, pipeline_vars>>

----------------------------------------------------------------------------
(* Python helpers *)

None == <<>>

Some(x) == <<x>>

\* truthiness of an Optional[str]
Truthy(v) == v # None /\ v[1] # ""

Range(s) == {s[i] : i \in DOMAIN s}

\* keys of a dict
Keys(d) == {d[i].name : i \in DOMAIN d}

\* d[k] for a key that is present
Get(d, k) == d[CHOOSE i \in DOMAIN d : d[i].name = k]

\* position of key k in the insertion order (0 when absent)
IndexOf(d, k) == IF k \in Keys(d) THEN CHOOSE i \in DOMAIN d : d[i].name = k ELSE 0

\* d[v.name] = v: replaces in place when the key exists, appends otherwise
DictSet(d, v) ==
    IF v.name \in Keys(d)
    THEN [i \in DOMAIN d |-> IF d[i].name = v.name THEN v ELSE d[i]]
    ELSE Append(d, v)

\* sequences over S of length at most n
SeqUpTo(S, n) == UNION {[1..k -> S] : k \in 0..n}

----------------------------------------------------------------------------
(* strands.multiagent.base.Status *)

PENDING == "pending"
EXECUTING == "executing"
COMPLETED == "completed"
FAILED == "failed"
INTERRUPTED == "interrupted"

Status == {PENDING, EXECUTING, COMPLETED, FAILED, INTERRUPTED}

TERMINAL_STATUSES == {COMPLETED, FAILED, INTERRUPTED}

----------------------------------------------------------------------------
(* task.py: Task *)

NewTask(name, agent, description, depends_on) ==
    [name |-> name, agent |-> agent, description |-> description,
     depends_on |-> depends_on, status |-> PENDING,
     started_at |-> None, completed_at |-> None,
     result |-> None, error |-> None]

\* a table that also lets a pending task complete directly
VALID_TRANSITIONS_SkipExecuting(status) ==
    CASE status = PENDING -> {EXECUTING, COMPLETED, INTERRUPTED}
      [] status = EXECUTING -> {COMPLETED, FAILED, INTERRUPTED}
      [] OTHER -> {}

VALID_TRANSITIONS(status) ==
    CASE status = PENDING -> {EXECUTING, INTERRUPTED}
      [] status = EXECUTING -> {COMPLETED, FAILED, INTERRUPTED}
      [] OTHER -> {}

\* a check that accepts a repeated notification of the current status
TransitionRaises_AcceptRepeat(task, new_status) ==
    /\ new_status \notin VALID_TRANSITIONS(task.status)
    /\ new_status # task.status

\* does transition_to raise ValueError?
TransitionRaises(task, new_status) == new_status \notin VALID_TRANSITIONS(task.status)

\* a transition that stamps completed_at on success only
transition_to_StampOnSuccessOnly(task, new_status, kwargs, now) ==
    LET t1 == [task EXCEPT !.status = new_status]
        t2 == IF new_status = EXECUTING
              THEN [t1 EXCEPT !.started_at = Some(now)]
              ELSE IF new_status = COMPLETED
                   THEN [t1 EXCEPT !.completed_at = Some(now)]
                   ELSE t1
        t3 == IF "result" \in DOMAIN kwargs
              THEN [t2 EXCEPT !.result = kwargs["result"]]
              ELSE t2
    IN  IF "error" \in DOMAIN kwargs
        THEN [t3 EXCEPT !.error = kwargs["error"]]
        ELSE t3

\* the task after a transition_to that does not raise; kwargs is a function
\* whose domain is the set of keyword names passed
transition_to(task, new_status, kwargs, now) ==
    LET t1 == [task EXCEPT !.status = new_status]
        t2 == IF new_status = EXECUTING
              THEN [t1 EXCEPT !.started_at = Some(now)]
              ELSE IF new_status \in TERMINAL_STATUSES
                   THEN [t1 EXCEPT !.completed_at = Some(now)]
                   ELSE t1
        t3 == IF "result" \in DOMAIN kwargs
              THEN [t2 EXCEPT !.result = kwargs["result"]]
              ELSE t2
    IN  IF "error" \in DOMAIN kwargs
        THEN [t3 EXCEPT !.error = kwargs["error"]]
        ELSE t3

NoKwargs == [k \in {} |-> None]

Kw(key, value) == [k \in {key} |-> value]

----------------------------------------------------------------------------
(* events.py: event kinds and their callback order *)

EventKinds ==
    {"SwarmStartedEvent", "PlanningStartedEvent", "AgentSpawnedEvent",
     "TaskCreatedEvent", "PlanningCompletedEvent", "ExecutionStartedEvent",
     "TaskStartedEvent", "TaskCompletedEvent", "TaskFailedEvent",
     "TaskInterruptedEvent", "ExecutionCompletedEvent", "SwarmCompletedEvent",
     "SwarmFailedEvent"}

\* the should_reverse_callbacks property of each event class; a class that
\* does not override it inherits BaseHookEvent's False
should_reverse_callbacks(kind) ==
    kind \in {"TaskCompletedEvent", "TaskFailedEvent", "TaskInterruptedEvent",
              "ExecutionCompletedEvent", "SwarmCompletedEvent", "SwarmFailedEvent"}

\* an event object: its class, its name field and its other fields
Event(kind, name, payload) == [kind |-> kind, name |-> name, payload |-> payload]

----------------------------------------------------------------------------
(* HookRegistry (strands.hooks): callbacks per event kind *)

Reverse(s) == [i \in DOMAIN s |-> s[Len(s) + 1 - i]]

has_callbacks == \E k \in EventKinds : callbacks[k] # <<>>

get_callbacks_for(event) ==
    IF should_reverse_callbacks(event.kind)
    THEN Reverse(callbacks[event.kind])
    ELSE callbacks[event.kind]

\* the observers whose callback raises when it is invoked
FailingObservers == {"X"}

\* the observers whose callback raises a ValueError
ValueErrorObservers == {"V"}

Raises(callback) == callback \in FailingObservers \cup ValueErrorObservers

\* the callbacks a loop `for callback in order: callback(event)` invokes: it
\* ends at the first callback that raises
InvokedPrefix(order) ==
    IF \E i \in DOMAIN order : Raises(order[i])
    THEN SubSeq(order, 1, CHOOSE i \in DOMAIN order :
                            /\ Raises(order[i])
                            /\ \A j \in 1..(i - 1) : ~Raises(order[j]))
    ELSE order

\* the record of one invoke_callbacks call: the callbacks invoked, in order,
\* and whether the call raised
invoke_callbacks(event) ==
    [event |-> event,
     order |-> InvokedPrefix(get_callbacks_for(event)),
     raised |-> \E i \in DOMAIN get_callbacks_for(event) :
                    Raises(get_callbacks_for(event)[i])]

\* the _emit / emit helper shared by TaskManager, SwarmDefinition and DynamicSwarm
EmitEffect(event) ==
    /\ emitted' = <<event>>
    /\ IF has_callbacks
       THEN delivered' = invoke_callbacks(event)
       ELSE UNCHANGED delivered

\* _emit raises: it has no handler around invoke_callbacks
EmitRaises(event) == has_callbacks /\ invoke_callbacks(event).raised

\* a call that does not reach _emit
NoEmit ==
    /\ emitted' = <<>>
    /\ UNCHANGED delivered

\* HookRegistry.add_callback
add_callback(kind, callback) ==
    callbacks' = [callbacks EXCEPT ![kind] = Append(@, callback)]

\* number of registered callbacks, over all event kinds
CallbackCount ==
    Cardinality(UNION {{<<k, i>> : i \in DOMAIN callbacks[k]} : k \in EventKinds})

----------------------------------------------------------------------------
(* task.py: TaskManager *)

Ok == "ok"

\* arg is the argument object as it is after the call, a record with a name
Call(op, arg, err) == [op |-> op, arg |-> arg, err |-> err]

NameArg(name) == [name |-> name]

\* how a call ends after its _emit: the exception of a callback propagates
AfterEmit(event) == IF EmitRaises(event) THEN "CallbackError" ELSE Ok

TaskCreatedEvent(name, agent, description, depends_on) ==
    Event("TaskCreatedEvent", name, <<agent, description, depends_on>>)

TaskStartedEvent(name) == Event("TaskStartedEvent", name, None)

TaskCompletedEvent(name, result) == Event("TaskCompletedEvent", name, result)

TaskFailedEvent(name, error) == Event("TaskFailedEvent", name, error)

TaskInterruptedEvent(name, reason) == Event("TaskInterruptedEvent", name, reason)

\* `depends_on or []`
OrEmptyList(depends_on) == IF depends_on = None THEN <<>> ELSE depends_on[1]

create(name, agent, description, depends_on) ==
    IF name \in Keys(tm_tasks)
    THEN /\ last' = Call("create", NameArg(name), "AlreadyExists")
         /\ UNCHANGED tm_tasks
         /\ NoEmit
    ELSE /\ tm_tasks' = DictSet(tm_tasks,
                NewTask(name, agent, description, OrEmptyList(depends_on)))
         /\ EmitEffect(TaskCreatedEvent(name, agent, description, OrEmptyList(depends_on)))
         /\ last' = Call("create", NameArg(name),
                         AfterEmit(TaskCreatedEvent(name, agent, description,
                                                    OrEmptyList(depends_on))))

\* a lifecycle call that reports an unknown name as an illegal transition
Lifecycle_MissingAsInvalid(op, name, new_status, kwargs, event) ==
    IF name \notin Keys(tm_tasks)
    THEN /\ last' = Call(op, NameArg(name), "InvalidTransition")
         /\ UNCHANGED <<tm_tasks, clock>>
         /\ NoEmit
    ELSE IF TransitionRaises(Get(tm_tasks, name), new_status)
    THEN /\ last' = Call(op, NameArg(name), "InvalidTransition")
         /\ UNCHANGED <<tm_tasks, clock>>
         /\ NoEmit
    ELSE /\ tm_tasks' = DictSet(tm_tasks,
                transition_to(Get(tm_tasks, name), new_status, kwargs, clock))
         /\ clock' = clock + 1
         /\ EmitEffect(event)
         /\ last' = Call(op, NameArg(name), AfterEmit(event))

\* a lifecycle call that applies the transition to every task that accepts it
Lifecycle_Broadcast(op, name, new_status, kwargs, event) ==
    IF name \notin Keys(tm_tasks)
    THEN /\ last' = Call(op, NameArg(name), "KeyError")
         /\ UNCHANGED <<tm_tasks, clock>>
         /\ NoEmit
    ELSE IF TransitionRaises(Get(tm_tasks, name), new_status)
    THEN /\ last' = Call(op, NameArg(name), "InvalidTransition")
         /\ UNCHANGED <<tm_tasks, clock>>
         /\ NoEmit
    ELSE /\ tm_tasks' = [i \in DOMAIN tm_tasks |->
                IF TransitionRaises(tm_tasks[i], new_status)
                THEN tm_tasks[i]
                ELSE transition_to(tm_tasks[i], new_status, kwargs, clock)]
         /\ clock' = clock + 1
         /\ EmitEffect(event)
         /\ last' = Call(op, NameArg(name), AfterEmit(event))

\* the common shape of start / complete / fail / interrupt: look the task up,
\* transition it, then emit the event
Lifecycle(op, name, new_status, kwargs, event) ==
    IF name \notin Keys(tm_tasks)
    THEN /\ last' = Call(op, NameArg(name), "KeyError")
         /\ UNCHANGED <<tm_tasks, clock>>
         /\ NoEmit
    ELSE IF TransitionRaises(Get(tm_tasks, name), new_status)
    THEN /\ last' = Call(op, NameArg(name), "InvalidTransition")
         /\ UNCHANGED <<tm_tasks, clock>>
         /\ NoEmit
    ELSE /\ tm_tasks' = DictSet(tm_tasks,
                transition_to(Get(tm_tasks, name), new_status, kwargs, clock))
         /\ clock' = clock + 1
         /\ EmitEffect(event)
         /\ last' = Call(op, NameArg(name), AfterEmit(event))

\* a start that emits the event before it validates the transition
start_EmitFirst(name) ==
    IF name \notin Keys(tm_tasks)
    THEN /\ last' = Call("start", NameArg(name), "KeyError")
         /\ UNCHANGED <<tm_tasks, clock>>
         /\ NoEmit
    ELSE IF TransitionRaises(Get(tm_tasks, name), EXECUTING)
    THEN /\ last' = Call("start", NameArg(name), "InvalidTransition")
         /\ UNCHANGED <<tm_tasks, clock>>
         /\ EmitEffect(TaskStartedEvent(name))
    ELSE /\ tm_tasks' = DictSet(tm_tasks,
                transition_to(Get(tm_tasks, name), EXECUTING, NoKwargs, clock))
         /\ clock' = clock + 1
         /\ EmitEffect(TaskStartedEvent(name))
         /\ last' = Call("start", NameArg(name), AfterEmit(TaskStartedEvent(name)))

start(name) == Lifecycle("start", name, EXECUTING, NoKwargs, TaskStartedEvent(name))

complete(name, result) ==
    Lifecycle("complete", name, COMPLETED, Kw("result", result),
              TaskCompletedEvent(name, result))

\* a fail that also stores the error as the task's result
fail_StoresResult(name, error) ==
    Lifecycle("fail", name, FAILED,
              [k \in {"error", "result"} |-> Some(error)],
              TaskFailedEvent(name, Some(error)))

fail(name, error) ==
    Lifecycle("fail", name, FAILED, Kw("error", Some(error)),
              TaskFailedEvent(name, Some(error)))

interrupt(name, reason) ==
    Lifecycle("interrupt", name, INTERRUPTED, Kw("error", reason),
              TaskInterruptedEvent(name, reason))

\* Task.transition_to called directly on a task of the manager, without keywords
direct_transition(name, new_status) ==
    /\ name \in Keys(tm_tasks)
    /\ IF TransitionRaises(Get(tm_tasks, name), new_status)
       THEN /\ last' = Call("transition_to", [name |-> name, new_status |-> new_status], "InvalidTransition")
            /\ UNCHANGED <<tm_tasks, clock>>
       ELSE /\ tm_tasks' = DictSet(tm_tasks,
                   transition_to(Get(tm_tasks, name), new_status, NoKwargs, clock))
            /\ clock' = clock + 1
            /\ last' = Call("transition_to", [name |-> name, new_status |-> new_status], Ok)
    /\ NoEmit

----------------------------------------------------------------------------
(* registry.py: the palette; definition.py: DynamicSwarmCapabilities *)

AGENT_COLORS == <<"blue", "green", "yellow", "magenta", "cyan", "red">>

\* keys of DynamicSwarmCapabilities.available_tools / available_models
available_tools == {"t1", "t2"}

available_models == {"m1"}

\* validate_tools raises ValueError
validate_tools_raises(tool_names) ==
    \E i \in DOMAIN tool_names : tool_names[i] \notin available_tools

\* validate_model raises ValueError
validate_model_raises(model_name) ==
    Truthy(model_name) /\ model_name[1] \notin available_models

----------------------------------------------------------------------------
(* definition.py: AgentDefinition, TaskDefinition, SwarmDefinition *)

AgentDefinition(name, role, instructions, tools, model, color) ==
    [name |-> name, role |-> role, instructions |-> instructions,
     tools |-> tools, model |-> model, color |-> color]

TaskDefinition(name, agent, description, depends_on) ==
    [name |-> name, agent |-> agent, description |-> description,
     depends_on |-> depends_on]

\* a palette lookup that stays on the last color instead of wrapping around
NextColor_NoWrap(index) ==
    AGENT_COLORS[(IF index < Len(AGENT_COLORS) THEN index ELSE Len(AGENT_COLORS) - 1) + 1]

\* the palette entry for a 0-based counter value
NextColor(index) == AGENT_COLORS[(index % Len(AGENT_COLORS)) + 1]

\* a registration without the duplicate-name check: the entry is overwritten
register_agent_Overwrite(definition) ==
    IF validate_tools_raises(definition.tools)
    THEN /\ last' = Call("register_agent", definition, "ToolNotAvailable")
         /\ UNCHANGED <<sub_agents, color_index>>
    ELSE IF validate_model_raises(definition.model)
    THEN /\ last' = Call("register_agent", definition, "ModelNotAvailable")
         /\ UNCHANGED <<sub_agents, color_index>>
    ELSE LET colored == [definition EXCEPT !.color = Some(NextColor(color_index))]
         IN  /\ color_index' = color_index + 1
             /\ sub_agents' = DictSet(sub_agents, colored)
             /\ last' = Call("register_agent", colored, Ok)

\* a registration that assigns the color before it validates tools and model
register_agent_ColorFirst(definition) ==
    IF definition.name \in Keys(sub_agents)
    THEN /\ last' = Call("register_agent", definition, "AlreadyExists")
         /\ UNCHANGED <<sub_agents, color_index>>
    ELSE LET colored == [definition EXCEPT !.color = Some(NextColor(color_index))]
         IN  IF validate_tools_raises(definition.tools)
             THEN /\ last' = Call("register_agent", colored, "ToolNotAvailable")
                  /\ color_index' = color_index + 1
                  /\ UNCHANGED sub_agents
             ELSE IF validate_model_raises(definition.model)
             THEN /\ last' = Call("register_agent", colored, "ModelNotAvailable")
                  /\ color_index' = color_index + 1
                  /\ UNCHANGED sub_agents
             ELSE /\ color_index' = color_index + 1
                  /\ sub_agents' = DictSet(sub_agents, colored)
                  /\ last' = Call("register_agent", colored, Ok)

register_agent(definition) ==
    IF definition.name \in Keys(sub_agents)
    THEN /\ last' = Call("register_agent", definition, "AlreadyExists")
         /\ UNCHANGED <<sub_agents, color_index>>
    ELSE IF validate_tools_raises(definition.tools)
    THEN /\ last' = Call("register_agent", definition, "ToolNotAvailable")
         /\ UNCHANGED <<sub_agents, color_index>>
    ELSE IF validate_model_raises(definition.model)
    THEN /\ last' = Call("register_agent", definition, "ModelNotAvailable")
         /\ UNCHANGED <<sub_agents, color_index>>
    ELSE LET colored == [definition EXCEPT !.color = Some(NextColor(color_index))]
         IN  /\ color_index' = color_index + 1
             /\ sub_agents' = DictSet(sub_agents, colored)
             /\ last' = Call("register_agent", colored, Ok)

\* a dependency check that looks at the first entry only
dependency_missing_FirstOnly(depends_on) ==
    depends_on # <<>> /\ depends_on[1] \notin Keys(tasks)

\* a registration that does not look at the dependencies
dependency_missing_Skipped(depends_on) == FALSE

\* the loop over depends_on raises at an entry that is not a registered task
dependency_missing(depends_on) ==
    \E i \in DOMAIN depends_on : depends_on[i] \notin Keys(tasks)

\* a registration that stores the task before it checks the dependencies
register_task_StoreFirst(definition) ==
    IF definition.name \in Keys(tasks)
    THEN /\ last' = Call("register_task", definition, "AlreadyExists")
         /\ UNCHANGED tasks
    ELSE IF definition.agent \notin Keys(sub_agents)
    THEN /\ last' = Call("register_task", definition, "AgentNotFound")
         /\ UNCHANGED tasks
    ELSE IF \E i \in DOMAIN definition.depends_on :
                definition.depends_on[i] \notin Keys(tasks)
    THEN /\ last' = Call("register_task", definition, "DependencyNotFound")
         /\ tasks' = DictSet(tasks, definition)
    ELSE /\ tasks' = DictSet(tasks, definition)
         /\ last' = Call("register_task", definition, Ok)

\* a registration without the worker check
register_task_NoAgentCheck(definition) ==
    IF definition.name \in Keys(tasks)
    THEN /\ last' = Call("register_task", definition, "AlreadyExists")
         /\ UNCHANGED tasks
    ELSE IF \E i \in DOMAIN definition.depends_on :
                definition.depends_on[i] \notin Keys(tasks)
    THEN /\ last' = Call("register_task", definition, "DependencyNotFound")
         /\ UNCHANGED tasks
    ELSE /\ tasks' = DictSet(tasks, definition)
         /\ last' = Call("register_task", definition, Ok)

register_task(definition) ==
    IF definition.name \in Keys(tasks)
    THEN /\ last' = Call("register_task", definition, "AlreadyExists")
         /\ UNCHANGED tasks
    ELSE IF definition.agent \notin Keys(sub_agents)
    THEN /\ last' = Call("register_task", definition, "AgentNotFound")
         /\ UNCHANGED tasks
    ELSE IF dependency_missing(definition.depends_on)
    THEN /\ last' = Call("register_task", definition, "DependencyNotFound")
         /\ UNCHANGED tasks
    ELSE /\ tasks' = DictSet(tasks, definition)
         /\ last' = Call("register_task", definition, Ok)

----------------------------------------------------------------------------
(* Threads calling the TaskManager *)

Threads == {"t1", "t2"}

\* a thread that has not made a call yet
IdleThread ==
    [pc |-> "idle", op |-> "none", name |-> "", new_status |-> PENDING,
     kwargs |-> NoKwargs, event |-> Event("none", None, None), err |-> Ok,
     calls |-> 0]

----------------------------------------------------------------------------
(* Initial state: a fresh TaskManager, SwarmDefinition and HookRegistry *)

\* no collaborator has been invoked yet
NoCalls == [planning |-> 0, build |-> 0, engine |-> 0, synthesis |-> 0]

\* the execute_async calls in flight, each on a DynamicSwarm of its own
Runs == {"A", "B"}

\* a call that has not started: its SwarmConfig (agents and tasks by name),
\* the events its HookRegistry received, the results of its planner's tool
\* calls and the status of its result
IdleRun ==
    [pc |-> "idle", agents |-> {}, tasks |-> {}, sink |-> {}, tool_results |-> {},
     status |-> None]

Init ==
    /\ tm_tasks = <<>>
    /\ clock = 1
    /\ sub_agents = <<>>
    /\ tasks = <<>>
    /\ color_index = 0
    /\ callbacks = [k \in EventKinds |-> <<>>]
    /\ delivered = [event |-> Event("none", None, None), order |-> <<>>, raised |-> FALSE]
    /\ last = Call("init", NameArg(""), Ok)
    /\ emitted = <<>>
    /\ event_log = <<>>
    /\ threads = [t \in Threads |-> IdleThread]
    /\ runs = [r \in Runs |-> IdleRun]
    /\ swarm_config = None
    /\ hook_registry = None
    /\ pc = "idle"
    /\ stream = <<>>
    /\ planning_result = None
    /\ execution_result = None
    /\ execution_error = None
    /\ final_response = None
    /\ swarm_result = None
    /\ calls = NoCalls
    /\ raised = <<>>
    /\ engine_events = <<>>
    /\ tool_result = [text |-> None, raised |-> None]
    /\ registry_config = [execution_mode |-> "swarm", entry_task |-> None]
    /\ current_task = None
    /\ graph = None

----------------------------------------------------------------------------
(* The task lifecycle: calls on one TaskManager *)

TMNames == {"a", "b"}

TMAgents == {"w1"}

TMDependsOn == {None, Some(<<"a">>)}

Results == {None, Some("r1")}

Errors == {"e1"}

Reasons == {None, Some("timeout")}

TMCreate ==
    /\ \E name \in TMNames, agent \in TMAgents, depends_on \in TMDependsOn :
          create(name, agent, None, depends_on)
    /\ UNCHANGED <<clock, sub_agents, tasks, color_index, callbacks>>
    /\ UNCHANGED pipeline_vars

TMStart ==
    /\ \E name \in TMNames : start(name)
    /\ UNCHANGED <<sub_agents, tasks, color_index, callbacks>>
    /\ UNCHANGED pipeline_vars

TMComplete ==
    /\ \E name \in TMNames, result \in Results : complete(name, result)
    /\ UNCHANGED <<sub_agents, tasks, color_index, callbacks>>
    /\ UNCHANGED pipeline_vars

TMFail ==
    /\ \E name \in TMNames, error \in Errors : fail(name, error)
    /\ UNCHANGED <<sub_agents, tasks, color_index, callbacks>>
    /\ UNCHANGED pipeline_vars

TMInterrupt ==
    /\ \E name \in TMNames, reason \in Reasons : interrupt(name, reason)
    /\ UNCHANGED <<sub_agents, tasks, color_index, callbacks>>
    /\ UNCHANGED pipeline_vars

TaskTransitionTo ==
    /\ \E name \in TMNames, new_status \in Status : direct_transition(name, new_status)
    /\ UNCHANGED <<sub_agents, tasks, color_index, callbacks>>
    /\ UNCHANGED pipeline_vars

NextTask ==
    \/ TMCreate
    \/ TMStart
    \/ TMComplete
    \/ TMFail
    \/ TMInterrupt
    \/ TaskTransitionTo

SpecTask == Init /\ [][NextTask]_vars

----------------------------------------------------------------------------
(* Properties of the task lifecycle *)

LifecycleOps == {"start", "complete", "fail", "interrupt", "transition_to"}

\* the status a lifecycle call asks for
RequestedStatus(call) ==
    CASE call.op = "start" -> EXECUTING
      [] call.op = "complete" -> COMPLETED
      [] call.op = "fail" -> FAILED
      [] call.op = "interrupt" -> INTERRUPTED
      [] call.op = "transition_to" -> call.arg.new_status

LegalPairs ==
    {<<PENDING, EXECUTING>>, <<PENDING, INTERRUPTED>>, <<EXECUTING, COMPLETED>>,
     <<EXECUTING, FAILED>>, <<EXECUTING, INTERRUPTED>>}

\* the step is a lifecycle call on the existing task `name`
LifecycleStepOn(name) ==
    /\ name \in Keys(tm_tasks)
    /\ last'.op \in LifecycleOps
    /\ last'.arg.name = name

\* C1: a transition request on a task succeeds iff (current status, requested
\* status) is one of the five legal pairs; a successful request sets the
\* requested status; a rejected request raises the invalid-transition error
\* and leaves the task (status, started_at, completed_at, result, error) as
\* it was.
C1_TransitionLegality ==
    [][\A name \in TMNames :
        LifecycleStepOn(name) =>
            LET old == Get(tm_tasks, name)
                new == Get(tm_tasks', name)
                req == RequestedStatus(last')
            IN  /\ (last'.err = Ok) <=> (<<old.status, req>> \in LegalPairs)
                /\ last'.err = Ok => new.status = req
                /\ last'.err # Ok =>
                      /\ last'.err = "InvalidTransition"
                      /\ new = old
                      /\ tm_tasks' = tm_tasks]_vars

\* C1 witness: a complete was rejected on a task that already failed, after
\* the legal path Pending -> Executing -> Failed.
C1_Witness ==
    /\ last.op = "complete"
    /\ last.err = "InvalidTransition"
    /\ Get(tm_tasks, last.arg.name).status = FAILED
    /\ Get(tm_tasks, last.arg.name).started_at # None

HasStamp(t) == t # None

\* C2 (as claimed): completed_at is set iff the status is terminal, and
\* started_at is set iff the status is no longer Pending.
C2_TimestampsAsClaimed ==
    \A i \in DOMAIN tm_tasks :
        /\ HasStamp(tm_tasks[i].completed_at) <=> tm_tasks[i].status \in TERMINAL_STATUSES
        /\ HasStamp(tm_tasks[i].started_at) <=> tm_tasks[i].status # PENDING

C2_StampInvariant ==
    \A i \in DOMAIN tm_tasks :
        /\ HasStamp(tm_tasks[i].completed_at) <=> tm_tasks[i].status \in TERMINAL_STATUSES
        /\ tm_tasks[i].status \in {EXECUTING, COMPLETED, FAILED} => HasStamp(tm_tasks[i].started_at)
        /\ tm_tasks[i].status = PENDING => ~HasStamp(tm_tasks[i].started_at)

\* C2 (amended): completed_at is set iff the status is terminal; started_at
\* is set iff start was applied to the task: it is set in Executing,
\* Completed and Failed, unset in Pending, and entering Interrupted leaves it
\* as it was, so a task interrupted directly from Pending has no started_at.
C2_Timestamps ==
    /\ []C2_StampInvariant
    /\ [][\A name \in Keys(tm_tasks) :
            (Get(tm_tasks', name).status = INTERRUPTED
                /\ Get(tm_tasks, name).status # INTERRUPTED) =>
            Get(tm_tasks', name).started_at =
                (IF Get(tm_tasks, name).status = PENDING
                 THEN None ELSE Get(tm_tasks, name).started_at)]_vars

\* C2 witness: a task interrupted directly from Pending: terminal, stamped
\* completed_at, no started_at.
C2_Witness ==
    \E i \in DOMAIN tm_tasks :
        /\ tm_tasks[i].status = INTERRUPTED
        /\ tm_tasks[i].started_at = None
        /\ HasStamp(tm_tasks[i].completed_at)

\* C3: terminal states are absorbing: once a task is Completed, Failed or
\* Interrupted no step changes any of its fields, the task stays in the
\* manager, and every lifecycle call on it raises the invalid-transition
\* error.
C3_TerminalAbsorbing ==
    [][\A name \in Keys(tm_tasks) :
        Get(tm_tasks, name).status \in TERMINAL_STATUSES =>
            /\ name \in Keys(tm_tasks')
            /\ Get(tm_tasks', name) = Get(tm_tasks, name)
            /\ LifecycleStepOn(name) => last'.err = "InvalidTransition"]_vars

\* C3 witness: a repeated complete notification on a completed task was
\* rejected, and the stored result is still there.
C3_Witness ==
    /\ last.op = "complete"
    /\ last.err = "InvalidTransition"
    /\ Get(tm_tasks, last.arg.name).status = COMPLETED
    /\ Get(tm_tasks, last.arg.name).result = Some("r1")

----------------------------------------------------------------------------
(* Planning: task registrations on one SwarmDefinition with one worker *)

MaxDeps == 2

TaskNames == {"a", "b", "merge"}

\* the worker "w1" with a known tool, and with an unknown one
PlanWorkerDefs ==
    {AgentDefinition("w1", "role", None, tools, None, None) :
        tools \in {<<"t1">>, <<"tx">>}}

\* tasks of the registered worker with any dependency list, and tasks of "wx",
\* which is never registered, with at most one dependency
TaskDefs ==
    {TaskDefinition(n, "w1", None, deps) :
        n \in TaskNames, deps \in SeqUpTo(TaskNames, MaxDeps)}
    \cup
    {TaskDefinition(n, "wx", None, deps) :
        n \in TaskNames, deps \in SeqUpTo(TaskNames, 1)}

RegisterWorker ==
    /\ \E definition \in PlanWorkerDefs : register_agent(definition)
    /\ UNCHANGED <<tm_tasks, clock, tasks, callbacks>>
    /\ NoEmit
    /\ UNCHANGED pipeline_vars

RegisterTask ==
    /\ \E definition \in TaskDefs : register_task(definition)
    /\ UNCHANGED <<tm_tasks, clock, sub_agents, color_index, callbacks>>
    /\ NoEmit
    /\ UNCHANGED pipeline_vars

NextReg ==
    \/ RegisterWorker
    \/ RegisterTask

SpecReg == Init /\ [][NextReg]_vars

----------------------------------------------------------------------------
(* Planning with lifecycle records: registrations on one SwarmDefinition and
   TaskManager.create on one TaskManager *)

PairNames == {"a", "b"}

\* (tools, model) of the definitions offered for registration: two valid
\* ones, one with an unknown tool after a known one, one with an unknown model
WorkerShapes ==
    {<<<<"t1">>, None>>, <<<<>>, Some("m1")>>,
     <<<<"t1", "tx">>, None>>, <<<<>>, Some("mx")>>}

AgentDefs ==
    {AgentDefinition("w1", "role", None, sh[1], sh[2], None) : sh \in WorkerShapes}

PairTaskDefs ==
    {TaskDefinition(n, w, None, deps) :
        n \in PairNames, w \in {"w1", "wx"}, deps \in SeqUpTo(PairNames, MaxDeps)}

RegisterAgent ==
    /\ \E definition \in AgentDefs : register_agent(definition)
    /\ UNCHANGED <<tm_tasks, clock, tasks, callbacks>>
    /\ NoEmit
    /\ UNCHANGED pipeline_vars

RegisterPairTask ==
    /\ \E definition \in PairTaskDefs : register_task(definition)
    /\ UNCHANGED <<tm_tasks, clock, sub_agents, color_index, callbacks>>
    /\ NoEmit
    /\ UNCHANGED pipeline_vars

CreateRecord ==
    /\ \E name \in PairNames, agent \in {"w1", "wx"},
          depends_on \in {None, Some(<<"b">>)} :
          create(name, agent, None, depends_on)
    /\ UNCHANGED <<clock, sub_agents, tasks, color_index, callbacks>>
    /\ UNCHANGED pipeline_vars

NextCreate ==
    \/ RegisterAgent
    \/ RegisterPairTask
    \/ CreateRecord

SpecCreate == Init /\ [][NextCreate]_vars

----------------------------------------------------------------------------
(* Worker registration: many workers on one SwarmDefinition *)

MaxWorkers == 7

WorkerName(i) == "w" \o ToString(i)

\* new names are taken in the order w1, w2, ...; any registered name may be
\* offered again
OfferedNames == {WorkerName(i) : i \in 1..MaxWorkers}

NextFresh(name) ==
    \/ name \in Keys(sub_agents)
    \/ /\ Len(sub_agents) < MaxWorkers
       /\ name = WorkerName(Len(sub_agents) + 1)

\* (tools, model): two valid definitions (the empty model name counts as no
\* model) and three invalid ones
ManyShapes ==
    {<<<<"t2", "t1">>, Some("m1")>>, <<<<>>, Some("")>>,
     <<<<"t1", "tx">>, None>>, <<<<>>, Some("mx")>>, <<<<"tx">>, Some("mx")>>}

RegisterOneOfMany ==
    /\ \E name \in OfferedNames, sh \in ManyShapes :
          /\ NextFresh(name)
          /\ register_agent(AgentDefinition(name, "role", None, sh[1], sh[2], None))
    /\ UNCHANGED <<tm_tasks, clock, tasks, callbacks>>
    /\ NoEmit
    /\ UNCHANGED pipeline_vars

NextAgents ==
    \/ RegisterOneOfMany

SpecAgents == Init /\ [][NextAgents]_vars

----------------------------------------------------------------------------
(* Event dispatch: observers register for event kinds, events are emitted *)

MaxCallbacks == 2

Observers == {"A", "B"}

AddCallback ==
    /\ CallbackCount < MaxCallbacks
    /\ \E kind \in EventKinds, callback \in Observers :
          /\ add_callback(kind, callback)
          /\ last' = Call("add_callback", NameArg(kind), Ok)
    /\ UNCHANGED <<tm_tasks, clock, sub_agents, tasks, color_index>>
    /\ NoEmit
    /\ UNCHANGED pipeline_vars

\* SwarmDefinition.emit of an event of any kind
Emit ==
    /\ \E kind \in EventKinds :
          /\ EmitEffect(Event(kind, None, None))
          /\ last' = Call("emit", NameArg(kind), AfterEmit(Event(kind, None, None)))
    /\ UNCHANGED <<tm_tasks, clock, sub_agents, tasks, color_index, callbacks>>
    /\ UNCHANGED pipeline_vars

NextHook ==
    \/ AddCallback
    \/ Emit

SpecHook == Init /\ [][NextHook]_vars

----------------------------------------------------------------------------
(* Properties of the task registry *)

\* the registered tasks a task depends on
Deps(name) == Range(Get(tasks, name).depends_on) \cap Keys(tasks)

RECURSIVE ReachFrom(_, _)
ReachFrom(S, k) ==
    IF k = 0 THEN S ELSE ReachFrom(S \cup UNION {Deps(n) : n \in S}, k - 1)

\* every task reachable from `name` along one or more dependency edges
Ancestors(name) == ReachFrom(Deps(name), Len(tasks))

\* every dependency of the i-th registered task was registered before it
DependenciesPrecede(d) ==
    \A i \in DOMAIN d : \A j \in DOMAIN d[i].depends_on :
        /\ IndexOf(d, d[i].depends_on[j]) >= 1
        /\ IndexOf(d, d[i].depends_on[j]) < i

\* C4: the dependency graph of the registered tasks is acyclic, and the
\* registration order is a topological order of it: every dependency of a
\* task is a task registered strictly before it.
C4_AcyclicByConstruction ==
    /\ DependenciesPrecede(tasks)
    /\ \A name \in Keys(tasks) : name \notin Ancestors(name)

\* C4 witness: two tasks are registered, the second depending on the first,
\* and a task naming itself as a dependency has just been rejected.
C4_Witness ==
    /\ Len(tasks) = 2
    /\ tasks[2].depends_on = <<tasks[1].name>>
    /\ last.op = "register_task"
    /\ last.err = "DependencyNotFound"
    /\ last.arg.name \in Range(last.arg.depends_on)

RegisterTaskStep == last'.op = "register_task"

HasUnknownDependency(definition) ==
    \E i \in DOMAIN definition.depends_on : definition.depends_on[i] \notin Keys(tasks)

\* C5: a register_task call with a dependency that is not a registered task
\* fails and leaves the task registry, the worker registry and the color
\* counter as they were; the error is the unknown-dependency error whenever
\* the name is new and the worker is registered (the checks that run before
\* it); a call with a new name, a registered worker and registered
\* dependencies succeeds and appends the definition.
C5_UnknownDependency ==
    [][RegisterTaskStep =>
        /\ HasUnknownDependency(last'.arg) =>
              /\ last'.err # Ok
              /\ (last'.arg.name \notin Keys(tasks) /\ last'.arg.agent \in Keys(sub_agents))
                    => last'.err = "DependencyNotFound"
              /\ tasks' = tasks
              /\ sub_agents' = sub_agents
              /\ color_index' = color_index
        /\ (/\ ~HasUnknownDependency(last'.arg)
            /\ last'.arg.name \notin Keys(tasks)
            /\ last'.arg.agent \in Keys(sub_agents)) =>
              /\ last'.err = Ok
              /\ tasks' = Append(tasks, last'.arg)]_vars

\* C5 witness: `merge`, depending on `a` and `b`, was offered by a registered
\* worker before `a` and `b` exist and was rejected; the registry is empty.
C5_Witness ==
    /\ last.op = "register_task"
    /\ last.err = "DependencyNotFound"
    /\ last.arg.name = "merge"
    /\ last.arg.depends_on = <<"a", "b">>
    /\ tasks = <<>>
    /\ Keys(sub_agents) = {"w1"}

\* referential integrity of the SwarmDefinition
RegistryIntegrity ==
    /\ \A i \in DOMAIN tasks : tasks[i].agent \in Keys(sub_agents)
    /\ DependenciesPrecede(tasks)

\* referential integrity of the TaskManager's lifecycle records
RecordIntegrity ==
    /\ \A i \in DOMAIN tm_tasks : tm_tasks[i].agent \in Keys(sub_agents)
    /\ DependenciesPrecede(tm_tasks)

\* C6 (as claimed): every task of the SwarmDefinition and every lifecycle
\* record of the TaskManager names a registered worker and depends only on
\* tasks created before it.
C6_IntegrityAsClaimed == RegistryIntegrity /\ RecordIntegrity

\* C6 (amended): every task registered in the SwarmDefinition names a
\* registered worker and depends only on tasks registered before it;
\* TaskManager.create checks the name only: it succeeds iff the name is new
\* and then stores the record with the worker and the dependencies given.
C6_Integrity ==
    /\ []RegistryIntegrity
    /\ [][last'.op = "create" =>
            /\ (last'.err = Ok) <=> (last'.arg.name \notin Keys(tm_tasks))
            /\ last'.err = Ok =>
                  /\ Len(tm_tasks') = Len(tm_tasks) + 1
                  /\ tm_tasks'[Len(tm_tasks')].name = last'.arg.name]_vars

\* C6 witness: `b` depends on `a`, both registered for the registered worker,
\* and a lifecycle record exists whose dependency has no record.
C6_Witness ==
    /\ Len(tasks) = 2
    /\ tasks[2].depends_on # <<>>
    /\ RegistryIntegrity
    /\ \E i \in DOMAIN tm_tasks :
          \E j \in DOMAIN tm_tasks[i].depends_on :
              tm_tasks[i].depends_on[j] \notin Keys(tm_tasks)

\* C7: registering a worker, a task or a lifecycle record under a name that
\* is already registered fails with the duplicate-name error and leaves the
\* registry (its size and every stored definition) unchanged; for workers the
\* color counter is not advanced.
C7_DuplicateName ==
    [][/\ (last'.op = "register_agent" /\ last'.arg.name \in Keys(sub_agents)) =>
              /\ last'.err = "AlreadyExists"
              /\ sub_agents' = sub_agents
              /\ color_index' = color_index
       /\ (last'.op = "register_task" /\ last'.arg.name \in Keys(tasks)) =>
              /\ last'.err = "AlreadyExists"
              /\ tasks' = tasks
       /\ (last'.op = "create" /\ last'.arg.name \in Keys(tm_tasks)) =>
              /\ last'.err = "AlreadyExists"
              /\ tm_tasks' = tm_tasks]_vars

\* C7 witness: a second, different and otherwise valid definition of `w1`
\* was rejected; the first one is still stored and one color was handed out.
C7_Witness ==
    /\ last.op = "register_agent"
    /\ last.err = "AlreadyExists"
    /\ Len(sub_agents) = 1
    /\ sub_agents[1].name = last.arg.name
    /\ sub_agents[1].tools # last.arg.tools
    /\ ~validate_tools_raises(last.arg.tools)
    /\ color_index = 1

----------------------------------------------------------------------------
(* Properties of the worker registry *)

UnknownTool(definition) ==
    \E i \in DOMAIN definition.tools : definition.tools[i] \notin available_tools

\* a model name is given (not None, not empty) and is not in the catalog
UnknownModel(definition) ==
    /\ definition.model # None
    /\ definition.model[1] # ""
    /\ definition.model[1] \notin available_models

\* C8: register_agent fails when a listed tool is not in the catalog and
\* when a model name is given that is not in the catalog; the worker
\* registry, the color counter and the color of the passed definition stay as
\* they were; for a new name the error is the unknown-tool error, or the
\* unknown-model error when all tools are known; a valid definition under a
\* new name is stored with the next color.
C8_UnknownToolOrModel ==
    [][last'.op = "register_agent" =>
        /\ (UnknownTool(last'.arg) \/ UnknownModel(last'.arg)) =>
              /\ last'.err # Ok
              /\ last'.arg.name \notin Keys(sub_agents) =>
                    last'.err = (IF UnknownTool(last'.arg)
                                 THEN "ToolNotAvailable" ELSE "ModelNotAvailable")
              /\ sub_agents' = sub_agents
              /\ color_index' = color_index
              /\ last'.arg.color = None
        /\ (/\ ~UnknownTool(last'.arg)
            /\ ~UnknownModel(last'.arg)
            /\ last'.arg.name \notin Keys(sub_agents)) =>
              /\ last'.err = Ok
              /\ sub_agents' = Append(sub_agents, last'.arg)
              /\ last'.arg.color # None]_vars

\* C8 witness: after two registrations a definition with known tools and an
\* unknown model was rejected under a new name; its color is still unset.
C8_Witness ==
    /\ last.op = "register_agent"
    /\ last.err = "ModelNotAvailable"
    /\ last.arg.name \notin Keys(sub_agents)
    /\ last.arg.color = None
    /\ Len(sub_agents) = 2
    /\ color_index = 2

\* C9: the i-th successfully registered worker (counting from 0) has the
\* color palette[i mod paletteSize], whatever failed calls came in between,
\* and the counter equals the number of registered workers.
C9_ColorAssignment ==
    /\ color_index = Len(sub_agents)
    /\ \A i \in DOMAIN sub_agents :
          sub_agents[i].color = Some(AGENT_COLORS[((i - 1) % Len(AGENT_COLORS)) + 1])

\* C9 witness: seven workers are registered, the seventh wrapped around to
\* the first color, and the most recent call was a rejected registration.
C9_Witness ==
    /\ Len(sub_agents) = Len(AGENT_COLORS) + 1
    /\ sub_agents[Len(AGENT_COLORS) + 1].color = Some(AGENT_COLORS[1])
    /\ last.op = "register_agent"
    /\ last.err = "AlreadyExists"

----------------------------------------------------------------------------
(* Properties of event dispatch *)

\* the event kinds the claim lists as delivered in registration order
StartKinds ==
    {"SwarmStartedEvent", "PlanningStartedEvent", "AgentSpawnedEvent",
     "TaskCreatedEvent", "ExecutionStartedEvent", "TaskStartedEvent"}

\* the event kinds the claim lists as delivered in reverse registration order
FinishKinds ==
    {"PlanningCompletedEvent", "TaskCompletedEvent", "TaskFailedEvent",
     "TaskInterruptedEvent", "ExecutionCompletedEvent", "SwarmCompletedEvent",
     "SwarmFailedEvent"}

\* the step emits an event of `kind` to the observers A then B
EmitToAThenB(kind) ==
    /\ last'.op = "emit"
    /\ last'.arg.name = kind
    /\ callbacks[kind] = <<"A", "B">>

\* C10 (as claimed): with observers A then B registered for a kind, every
\* start/created kind is delivered A before B and every completed / failed /
\* interrupted / swarm-finished kind, PlanningCompleted included, is
\* delivered B before A.
C10_OrderAsClaimed ==
    [][\A kind \in EventKinds :
        EmitToAThenB(kind) =>
            /\ delivered'.event.kind = kind
            /\ kind \in StartKinds => delivered'.order = <<"A", "B">>
            /\ kind \in FinishKinds => delivered'.order = <<"B", "A">>]_vars

----------------------------------------------------------------------------
(* An observed TaskManager: hook providers register their callbacks, then
   lifecycle notifications arrive *)

ObsNames == {"a", "b"}

\* the observers; the callbacks of "X" raise
ObsObservers == {"A"} \cup FailingObservers

Registered(observer) ==
    \E k \in EventKinds : \E i \in DOMAIN callbacks[k] : callbacks[k][i] = observer

\* HookProvider.register_hooks: one add_callback per event kind
register_hooks(observer) ==
    callbacks' = [k \in EventKinds |-> Append(callbacks[k], observer)]

\* the log of the events passed to _emit
LogEmitted == event_log' = event_log \o emitted'

ObsAddHook ==
    /\ \E observer \in ObsObservers :
          /\ ~Registered(observer)
          /\ register_hooks(observer)
          /\ last' = Call("add_hook", NameArg(observer), Ok)
    /\ NoEmit
    /\ UNCHANGED <<tm_tasks, clock, sub_agents, tasks, color_index, event_log, threads,
                   flow_vars>>

ObsCreate ==
    /\ \E name \in ObsNames : create(name, "w1", None, None)
    /\ LogEmitted
    /\ UNCHANGED <<clock, sub_agents, tasks, color_index, callbacks>>
    /\ UNCHANGED <<threads, flow_vars>>

ObsStart ==
    /\ \E name \in ObsNames : start(name)
    /\ LogEmitted
    /\ UNCHANGED <<sub_agents, tasks, color_index, callbacks>>
    /\ UNCHANGED <<threads, flow_vars>>

ObsComplete ==
    /\ \E name \in ObsNames, result \in Results : complete(name, result)
    /\ LogEmitted
    /\ UNCHANGED <<sub_agents, tasks, color_index, callbacks>>
    /\ UNCHANGED <<threads, flow_vars>>

ObsFail ==
    /\ \E name \in ObsNames, error \in Errors : fail(name, error)
    /\ LogEmitted
    /\ UNCHANGED <<sub_agents, tasks, color_index, callbacks>>
    /\ UNCHANGED <<threads, flow_vars>>

ObsInterrupt ==
    /\ \E name \in ObsNames, reason \in Reasons : interrupt(name, reason)
    /\ LogEmitted
    /\ UNCHANGED <<sub_agents, tasks, color_index, callbacks>>
    /\ UNCHANGED <<threads, flow_vars>>

NextObs ==
    \/ ObsAddHook
    \/ ObsCreate
    \/ ObsStart
    \/ ObsComplete
    \/ ObsFail
    \/ ObsInterrupt

SpecObs == Init /\ [][NextObs]_vars

----------------------------------------------------------------------------
(* Properties of an observed TaskManager *)

\* the step passes an event to _emit while callbacks are registered
EmittingStep == emitted' # <<>> /\ has_callbacks

\* C11 (as claimed): when an event is emitted to several observers and one
\* of them fails, every observer registered for the kind is still invoked,
\* in the order of the kind, and the emitting operation returns normally.
C11_IsolationAsClaimed ==
    [][(EmittingStep /\ Len(callbacks[emitted'[1].kind]) >= 2) =>
        /\ delivered'.order = get_callbacks_for(emitted'[1])
        /\ last'.err = Ok]_vars

\* the event a lifecycle call emits when its transition is accepted
MatchingEvent(call, task) ==
    CASE call.op = "start" -> TaskStartedEvent(call.arg.name)
      [] call.op = "complete" -> TaskCompletedEvent(call.arg.name, task.result)
      [] call.op = "fail" -> TaskFailedEvent(call.arg.name, task.error)
      [] call.op = "interrupt" -> TaskInterruptedEvent(call.arg.name, task.error)

ManagerLifecycleOps == {"start", "complete", "fail", "interrupt"}

TerminalEventKinds == {"TaskCompletedEvent", "TaskFailedEvent", "TaskInterruptedEvent"}

\* the kinds of the lifecycle events logged for the task `name`, in order
RECURSIVE KindsOf(_, _)
KindsOf(log, name) ==
    IF log = <<>> THEN <<>>
    ELSE IF log[1].name = name /\ log[1].kind # "TaskCreatedEvent"
         THEN <<log[1].kind>> \o KindsOf(Tail(log), name)
         ELSE KindsOf(Tail(log), name)

\* TaskStarted at most once, followed by at most one terminal event
StartThenTerminal(kinds) ==
    \/ kinds = <<>>
    \/ kinds = <<"TaskStartedEvent">>
    \/ Len(kinds) = 1 /\ kinds[1] \in TerminalEventKinds
    \/ Len(kinds) = 2 /\ kinds[1] = "TaskStartedEvent" /\ kinds[2] \in TerminalEventKinds

\* C12: a lifecycle call whose transition is accepted passes exactly one event
\* to _emit: the event of the matching kind with the task's name and the
\* result, error or reason of the call; a call rejected as an illegal
\* transition (or naming no task) passes none and invokes no callback; so the
\* events logged for a task are TaskStarted at most once, followed by at most
\* one terminal event.
C12_OneEventPerTransition ==
    /\ [][last'.op \in ManagerLifecycleOps =>
            IF last'.err \in {"InvalidTransition", "KeyError"}
            THEN /\ emitted' = <<>>
                 /\ delivered' = delivered
                 /\ event_log' = event_log
            ELSE /\ emitted' = <<MatchingEvent(last', Get(tm_tasks', last'.arg.name))>>
                 /\ event_log' = Append(event_log, emitted'[1])
                 /\ Get(tm_tasks', last'.arg.name).status = RequestedStatus(last')
                 /\ Get(tm_tasks, last'.arg.name).status # RequestedStatus(last')]_vars
    /\ [](\A name \in ObsNames : StartThenTerminal(KindsOf(event_log, name)))

\* C12 witness: task `a` was started and completed with a result, both events
\* are in the log, the completed event carries the result, and a second
\* complete has just been rejected without an event.
C12_Witness ==
    /\ KindsOf(event_log, "a") = <<"TaskStartedEvent", "TaskCompletedEvent">>
    /\ \E i \in DOMAIN event_log : event_log[i] = TaskCompletedEvent("a", Some("r1"))
    /\ last.op = "complete"
    /\ last.arg.name = "a"
    /\ last.err = "InvalidTransition"
    /\ emitted = <<>>
    /\ has_callbacks

----------------------------------------------------------------------------
(* Concurrent notifications: two threads call the lifecycle operations of one
   TaskManager; a call is a sequence of steps and the steps of the two
   threads interleave *)

ConcNames == {"a", "b"}

\* the number of calls one thread makes
MaxThreadCalls == 2

\* the thread after its call returned or raised: it keeps what it called and
\* how the call ended
Returned(call, name, made, err) ==
    [pc |-> "idle", op |-> call.op, name |-> name, new_status |-> call.new_status,
     kwargs |-> call.kwargs, event |-> call.event, err |-> err, calls |-> made]

\* the calls a thread makes: operation, requested status, keywords, event
ThreadCalls(name) ==
    {[op |-> "start", new_status |-> EXECUTING, kwargs |-> NoKwargs,
      event |-> TaskStartedEvent(name)],
     [op |-> "complete", new_status |-> COMPLETED, kwargs |-> Kw("result", Some("r1")),
      event |-> TaskCompletedEvent(name, Some("r1"))],
     [op |-> "fail", new_status |-> FAILED, kwargs |-> Kw("error", Some("e1")),
      event |-> TaskFailedEvent(name, Some("e1"))],
     [op |-> "interrupt", new_status |-> INTERRUPTED, kwargs |-> Kw("error", Some("timeout")),
      event |-> TaskInterruptedEvent(name, Some("timeout"))]}

\* `self.status = new_status`
SetStatus(task, new_status) == [task EXCEPT !.status = new_status]

\* the stamps and the keyword fields of transition_to
StampAndStore(task, new_status, kwargs, now) ==
    LET t2 == IF new_status = EXECUTING
              THEN [task EXCEPT !.started_at = Some(now)]
              ELSE IF new_status \in TERMINAL_STATUSES
                   THEN [task EXCEPT !.completed_at = Some(now)]
                   ELSE task
        t3 == IF "result" \in DOMAIN kwargs
              THEN [t2 EXCEPT !.result = kwargs["result"]]
              ELSE t2
    IN  IF "error" \in DOMAIN kwargs
        THEN [t3 EXCEPT !.error = kwargs["error"]]
        ELSE t3

ThreadFrame == UNCHANGED <<sub_agents, tasks, color_index, callbacks, flow_vars>>

\* the manager is populated before the notifications arrive
ConcCreate ==
    /\ \A t \in Threads : threads[t] = IdleThread
    /\ \E name \in ConcNames : create(name, "w1", None, None)
    /\ LogEmitted
    /\ UNCHANGED <<clock, threads>>
    /\ ThreadFrame

\* a thread enters a call: the task lookup and the validity check of
\* transition_to, which reads the status
ThreadCheck(t) ==
    /\ threads[t].pc = "idle"
    /\ threads[t].calls < MaxThreadCalls
    /\ \E name \in ConcNames : \E call \in ThreadCalls(name) :
          IF name \notin Keys(tm_tasks)
          THEN /\ threads' = [threads EXCEPT ![t] =
                                Returned(call, name, threads[t].calls + 1, "KeyError")]
               /\ last' = Call(call.op, NameArg(name), "KeyError")
          ELSE IF TransitionRaises(Get(tm_tasks, name), call.new_status)
          THEN /\ threads' = [threads EXCEPT ![t] =
                                Returned(call, name, threads[t].calls + 1,
                                         "InvalidTransition")]
               /\ last' = Call(call.op, NameArg(name), "InvalidTransition")
          ELSE /\ threads' = [threads EXCEPT ![t] =
                                [pc |-> "checked", op |-> call.op, name |-> name,
                                 new_status |-> call.new_status, kwargs |-> call.kwargs,
                                 event |-> call.event, err |-> Ok,
                                 calls |-> threads[t].calls + 1]]
               /\ UNCHANGED last
    /\ NoEmit
    /\ UNCHANGED <<tm_tasks, clock, event_log>>
    /\ ThreadFrame

\* `self.status = new_status`
ThreadSetStatus(t) ==
    /\ threads[t].pc = "checked"
    /\ tm_tasks' = DictSet(tm_tasks,
            SetStatus(Get(tm_tasks, threads[t].name), threads[t].new_status))
    /\ threads' = [threads EXCEPT ![t].pc = "assigned"]
    /\ UNCHANGED <<clock, last, emitted, delivered, event_log>>
    /\ ThreadFrame

\* the timestamp and the keyword fields
ThreadStamp(t) ==
    /\ threads[t].pc = "assigned"
    /\ tm_tasks' = DictSet(tm_tasks,
            StampAndStore(Get(tm_tasks, threads[t].name), threads[t].new_status,
                          threads[t].kwargs, clock))
    /\ clock' = clock + 1
    /\ threads' = [threads EXCEPT ![t].pc = "stored"]
    /\ UNCHANGED <<last, emitted, delivered, event_log>>
    /\ ThreadFrame

\* an _emit that runs right after the status assignment, before the
\* timestamp and the keyword fields are written
ThreadEmit_BeforeStamp(t) ==
    /\ threads[t].pc = "assigned"
    /\ EmitEffect(threads[t].event)
    /\ LogEmitted
    /\ last' = Call(threads[t].op, NameArg(threads[t].name), AfterEmit(threads[t].event))
    /\ threads' = [threads EXCEPT ![t] =
                        Returned(threads[t], threads[t].name, threads[t].calls,
                                 AfterEmit(threads[t].event))]
    /\ UNCHANGED <<tm_tasks, clock>>
    /\ ThreadFrame

\* `self._emit(...)`, the last statement of the call
ThreadEmit(t) ==
    /\ threads[t].pc = "stored"
    /\ EmitEffect(threads[t].event)
    /\ LogEmitted
    /\ last' = Call(threads[t].op, NameArg(threads[t].name), AfterEmit(threads[t].event))
    /\ threads' = [threads EXCEPT ![t] =
                        Returned(threads[t], threads[t].name, threads[t].calls,
                                 AfterEmit(threads[t].event))]
    /\ UNCHANGED <<tm_tasks, clock>>
    /\ ThreadFrame

NextConc ==
    \/ ConcCreate
    \/ \E t \in Threads : ThreadCheck(t)
    \/ \E t \in Threads : ThreadSetStatus(t)
    \/ \E t \in Threads : ThreadStamp(t)
    \/ \E t \in Threads : ThreadEmit(t)

SpecConc == Init /\ [][NextConc]_vars

----------------------------------------------------------------------------
(* Properties of concurrent notifications *)

\* the last call of the thread has ended and was a terminal report on `name`
ReportedOn(t, name) ==
    /\ threads[t].pc = "idle"
    /\ threads[t].calls > 0
    /\ threads[t].name = name
    /\ threads[t].new_status \in TERMINAL_STATUSES

\* C13 (as claimed): when lifecycle calls of two threads interleave, of two
\* terminal reports on one task at most one is applied and the other raises
\* the invalid-transition error, at most one terminal event is emitted per
\* task, and the result and the error of a task come from the one applied
\* call: a completed task has no error and a failed task has no result.
C13_SafeAsClaimed ==
    \A name \in ConcNames :
        /\ \A t, u \in Threads :
              (t # u /\ ReportedOn(t, name) /\ ReportedOn(u, name)) =>
                  ~(threads[t].err = Ok /\ threads[u].err = Ok)
        /\ StartThenTerminal(KindsOf(event_log, name))
        /\ name \in Keys(tm_tasks) =>
              /\ Get(tm_tasks, name).status = COMPLETED => Get(tm_tasks, name).error = None
              /\ Get(tm_tasks, name).status = FAILED => Get(tm_tasks, name).result = None

----------------------------------------------------------------------------
(* Overlapping execute_async calls and the module-level config of the       *)
(* orchestrator tools                                                       *)

\* the worker and the task the planner of a run asks for
AgentOf(r) == "w" \o r

TaskOf(r) == "t" \o r

\* orchestrator.set_swarm_config
set_swarm_config(config, registry) ==
    /\ swarm_config' = config
    /\ hook_registry' = registry

\* orchestrator._emit: the event goes to the registry the module refers to
\* (every run has an observer registered)
SinkAfter(rs, name) ==
    IF hook_registry = None
        THEN rs
        ELSE [rs EXCEPT ![hook_registry[1]].sink = @ \cup {name}]

\* SwarmConfig.register_agent on the config of run q
RegisterAgentRaises(q, name) == name \in runs[q].agents

\* SwarmConfig.register_task on the config of run q
RegisterTaskRaises(q, name, agent) ==
    \/ name \in runs[q].tasks
    \/ agent \notin runs[q].agents

\* execute_async up to its first await: the config of the run is created and
\* installed in the module
RunStart(r) ==
    /\ runs[r].pc = "idle"
    /\ runs' = [runs EXCEPT ![r].pc = "planning"]
    /\ set_swarm_config(Some(r), Some(r))

\* the spawn_agent tool called by the planner of run r
spawn_agent(r) ==
    /\ runs[r].pc = "planning"
    /\ IF swarm_config = None
          THEN runs' = [runs EXCEPT ![r].tool_results = @ \cup {"RuntimeError"}]
          ELSE LET q == swarm_config[1] IN
               IF RegisterAgentRaises(q, AgentOf(r))
                  THEN runs' = [runs EXCEPT ![r].tool_results = @ \cup {"Failed"}]
                  ELSE runs' = SinkAfter(
                                   [runs EXCEPT ![q].agents = @ \cup {AgentOf(r)},
                                                ![r].tool_results = @ \cup {"Spawned"}],
                                   AgentOf(r))
    /\ UNCHANGED <<swarm_config, hook_registry>>

\* the create_task tool called by the planner of run r
create_task(r) ==
    /\ runs[r].pc = "planning"
    /\ IF swarm_config = None
          THEN runs' = [runs EXCEPT ![r].tool_results = @ \cup {"RuntimeError"}]
          ELSE LET q == swarm_config[1] IN
               IF RegisterTaskRaises(q, TaskOf(r), AgentOf(r))
                  THEN runs' = [runs EXCEPT ![r].tool_results = @ \cup {"Failed"}]
                  ELSE runs' = SinkAfter(
                                   [runs EXCEPT ![q].tasks = @ \cup {TaskOf(r)},
                                                ![r].tool_results = @ \cup {"Created"}],
                                   TaskOf(r))
    /\ UNCHANGED <<swarm_config, hook_registry>>

\* the planner returns: without tasks in the config of the run the call
\* returns a failed result through the finally block, otherwise the graph is
\* built and awaited
PlanningReturns(r) ==
    /\ runs[r].pc = "planning"
    /\ IF runs[r].tasks = {}
          THEN /\ runs' = [runs EXCEPT ![r].pc = "done", ![r].status = Some(FAILED)]
               /\ set_swarm_config(None, None)
          ELSE /\ runs' = [runs EXCEPT ![r].pc = "executing"]
               /\ UNCHANGED <<swarm_config, hook_registry>>

\* the graph and the completion call return; the finally block clears the
\* module-level config
RunFinish(r) ==
    /\ runs[r].pc = "executing"
    /\ runs' = [runs EXCEPT ![r].pc = "done", ![r].status = Some(COMPLETED)]
    /\ set_swarm_config(None, None)

RunFrame ==
    UNCHANGED <<tm_tasks, clock, sub_agents, tasks, color_index, callbacks, delivered,
                last, emitted, event_log, threads, stream_vars, tool_vars, build_vars>>

RunsStart == (\E r \in Runs : RunStart(r)) /\ RunFrame

RunsSpawnAgent == (\E r \in Runs : spawn_agent(r)) /\ RunFrame

RunsCreateTask == (\E r \in Runs : create_task(r)) /\ RunFrame

RunsPlanningReturns == (\E r \in Runs : PlanningReturns(r)) /\ RunFrame

RunsFinish == (\E r \in Runs : RunFinish(r)) /\ RunFrame

NextRuns ==
    \/ RunsStart
    \/ RunsSpawnAgent
    \/ RunsCreateTask
    \/ RunsPlanningReturns
    \/ RunsFinish

SpecRuns == Init /\ [][NextRuns]_vars

\* C14 (as claimed): overlapping runs share no per-run state: the workers and
\* tasks a run's planner registers land only in that run's config, the
\* events of its tools reach only its own hook registry, and no registration
\* tool of a run finds the module without a config because another run
\* finished.
C14_NoSharingAsClaimed ==
    \A r \in Runs :
        /\ runs[r].agents \subseteq {AgentOf(r)}
        /\ runs[r].tasks \subseteq {TaskOf(r)}
        /\ runs[r].sink \subseteq {AgentOf(r), TaskOf(r)}
        /\ "RuntimeError" \notin runs[r].tool_results

----------------------------------------------------------------------------
(* One DynamicSwarm.stream_async call: planning, execution, synthesis *)

\* the tasks the planner may register, all for the worker "w1"
StreamNames == {"a", "b"}

\* str(e) of the exceptions a collaborator may raise
Messages == {"", "boom"}

\* how many node events the engine yields besides its result event
MaxEngineEvents == 2

\* `x or default` on an Optional[str]
PyOr(x, default) == IF Truthy(x) THEN x[1] ELSE default

AgentResult(text) == [kind |-> "AgentResult", text |-> text]

ExceptionOf(msg) == [kind |-> "Exception", text |-> msg]

\* str() of the result a node holds: the text of the agent's message, or the
\* message of the exception
str(x) == x.text

\* strands NodeResult, keyed by its node id
NodeResult(name, status, result) == [name |-> name, status |-> status, result |-> result]

\* what the engine stores for a node that ended with `status`
NodeResultOf(name, status) ==
    IF status = COMPLETED
        THEN NodeResult(name, COMPLETED, AgentResult("out_" \o name))
        ELSE NodeResult(name, FAILED, ExceptionOf("err_" \o name))

\* the GraphResult objects the engine may report for the registered tasks:
\* any overall status, and for any subset of the tasks a node result
GraphResults ==
    UNION {
        {[status |-> status,
          results |-> LET sel == SelectSeq(tasks, LAMBDA t : t.name \in D)
                      IN  [i \in DOMAIN sel |-> NodeResultOf(sel[i].name, f[sel[i].name])]] :
            status \in {COMPLETED, FAILED}, f \in [D -> {COMPLETED, FAILED}]} :
        D \in SUBSET Keys(tasks)}

DynamicSwarmResult(status, exec_result, response, agents_spawned, tasks_created, error) ==
    [status |-> status, execution_result |-> exec_result, final_response |-> response,
     agents_spawned |-> agents_spawned, tasks_created |-> tasks_created, error |-> error]

\* DynamicSwarmResult.get_output
get_output(result, task_name) ==
    IF /\ result.execution_result # None
       /\ task_name \in Keys(result.execution_result[1].results)
        THEN Some(str(Get(result.execution_result[1].results, task_name).result))
        ELSE None

\* _synthesize_final_response: the outputs collected for the prompt, one per
\* registered task that has a node result
task_outputs(exec_result) ==
    LET sel == SelectSeq(tasks, LAMBDA t : t.name \in Keys(exec_result.results))
    IN  [i \in DOMAIN sel |->
            <<sel[i].name, str(Get(exec_result.results, sel[i].name).result)>>]

\* the error of the final result, derived from the engine's overall status
StatusError(status) ==
    IF status = COMPLETED THEN None ELSE Some("Execution ended with status " \o status)

\* events of the engine's own stream, passed through
NodeEvents == {"multiagent_node_start", "multiagent_node_stop"}

RawEvents == NodeEvents \cup {"multiagent_result"}

IsRaw(e) == e \in RawEvents

Yield(events) == stream' = stream \o events

Invoked(collaborator) == calls' = [calls EXCEPT ![collaborator] = @ + 1]

Raise(by, msg) == raised' = Append(raised, [by |-> by, msg |-> msg])

\* what the steps of the engine's stream leave alone
EngineFrame ==
    UNCHANGED <<tm_tasks, clock, callbacks, delivered, event_log, threads, run_vars,
                tool_vars, build_vars>>

StreamFrame ==
    /\ EngineFrame
    /\ UNCHANGED engine_events

DefinitionFrame == UNCHANGED <<sub_agents, tasks, color_index, last, emitted>>

\* stream_async up to the planning call
StreamStart ==
    /\ pc = "idle"
    /\ Yield(<<"swarm_started", "planning_started">>)
    /\ Invoked("planning")
    /\ pc' = "planning"
    /\ UNCHANGED <<planning_result, execution_result, execution_error, final_response,
                   swarm_result, raised>>
    /\ DefinitionFrame
    /\ StreamFrame

\* the planner registers the worker through its tool
PlannerRegistersAgent ==
    /\ pc = "planning"
    /\ register_agent(AgentDefinition("w1", "role", None, <<"t1">>, None, None))
    /\ UNCHANGED <<tasks, emitted, stream_vars>>
    /\ StreamFrame

\* the planner registers a task through its tool
PlannerRegistersTask ==
    /\ pc = "planning"
    /\ \E name \in StreamNames : register_task(TaskDefinition(name, "w1", None, <<>>))
    /\ UNCHANGED <<sub_agents, color_index, emitted, stream_vars>>
    /\ StreamFrame

\* _run_planning: the planner call returns
PlannerReturns ==
    /\ pc = "planning"
    /\ planning_result' = Some([success |-> TRUE, error |-> None])
    /\ pc' = "planned"
    /\ UNCHANGED <<stream, execution_result, execution_error, final_response,
                   swarm_result, calls, raised>>
    /\ DefinitionFrame
    /\ StreamFrame

\* an exception of the planner call that is not caught
PlannerRaises_Escapes ==
    /\ pc = "planning"
    /\ \E msg \in Messages : Raise("planning", msg)
    /\ pc' = "done"
    /\ UNCHANGED <<stream, planning_result, execution_result, execution_error,
                   final_response, swarm_result, calls>>
    /\ DefinitionFrame
    /\ StreamFrame

\* _run_planning: the planner call raises, the exception becomes a failed
\* planning result
PlannerRaises ==
    /\ pc = "planning"
    /\ \E msg \in Messages :
          /\ Raise("planning", msg)
          /\ planning_result' = Some([success |-> FALSE, error |-> Some(msg)])
    /\ pc' = "planned"
    /\ UNCHANGED <<stream, execution_result, execution_error, final_response,
                   swarm_result, calls>>
    /\ DefinitionFrame
    /\ StreamFrame

\* planning did not succeed
PlanningFailed ==
    /\ pc = "planned"
    /\ ~planning_result[1].success
    /\ LET error == PyOr(planning_result[1].error, "Planning failed")
       IN  swarm_result' = Some(DynamicSwarmResult(FAILED, None, None, Len(sub_agents),
                                                   Len(tasks), Some(error)))
    /\ Yield(<<"planning_failed", "swarm_result">>)
    /\ pc' = "done"
    /\ UNCHANGED <<planning_result, execution_result, execution_error, final_response,
                   calls, raised>>
    /\ DefinitionFrame
    /\ StreamFrame

\* planning succeeded but the definition has no task
NoTasksCreated ==
    /\ pc = "planned"
    /\ planning_result[1].success
    /\ tasks = <<>>
    /\ swarm_result' = Some(DynamicSwarmResult(FAILED, None, None, Len(sub_agents), 0,
                                               Some("No tasks were created")))
    /\ Yield(<<"planning_failed", "swarm_result">>)
    /\ pc' = "done"
    /\ UNCHANGED <<planning_result, execution_result, execution_error, final_response,
                   calls, raised>>
    /\ DefinitionFrame
    /\ StreamFrame

\* the graph is built and the engine started whatever the definition holds
PlanningCompleted_NoTaskCheck ==
    /\ pc = "planned"
    /\ planning_result[1].success
    /\ Yield(<<"planning_completed", "execution_started">>)
    /\ calls' = [calls EXCEPT !.build = @ + 1, !.engine = @ + 1]
    /\ pc' = "executing"
    /\ UNCHANGED <<planning_result, execution_result, execution_error, final_response,
                   swarm_result, raised>>
    /\ DefinitionFrame
    /\ StreamFrame

\* planning succeeded with tasks: build_swarm, then the engine's stream is
\* opened
PlanningCompleted ==
    /\ pc = "planned"
    /\ planning_result[1].success
    /\ tasks # <<>>
    /\ Yield(<<"planning_completed", "execution_started">>)
    /\ calls' = [calls EXCEPT !.build = @ + 1, !.engine = @ + 1]
    /\ pc' = "executing"
    /\ UNCHANGED <<planning_result, execution_result, execution_error, final_response,
                   swarm_result, raised>>
    /\ DefinitionFrame
    /\ StreamFrame

\* the engine's stream produces `event`
Produces(event) == engine_events' = Append(engine_events, event)

\* the engine yields a node event, which is passed through
EngineYields ==
    /\ pc = "executing"
    /\ Len(SelectSeq(engine_events, LAMBDA e : e \in NodeEvents)) < MaxEngineEvents
    /\ \E event \in NodeEvents :
          /\ Produces(event)
          /\ Yield(<<event>>)
    /\ UNCHANGED <<pc, planning_result, execution_result, execution_error,
                   final_response, swarm_result, calls, raised>>
    /\ DefinitionFrame
    /\ EngineFrame

\* the result event is captured and not passed on
EngineYieldsResult_Captured ==
    /\ pc = "executing"
    /\ execution_result = None
    /\ \E candidate \in GraphResults : execution_result' = Some(candidate)
    /\ Produces("multiagent_result")
    /\ UNCHANGED <<pc, stream, planning_result, execution_error, final_response,
                   swarm_result, calls, raised>>
    /\ DefinitionFrame
    /\ EngineFrame

\* the engine yields its result event, which is captured and passed through
EngineYieldsResult ==
    /\ pc = "executing"
    /\ execution_result = None
    /\ \E candidate \in GraphResults : execution_result' = Some(candidate)
    /\ Produces("multiagent_result")
    /\ Yield(<<"multiagent_result">>)
    /\ UNCHANGED <<pc, planning_result, execution_error, final_response, swarm_result,
                   calls, raised>>
    /\ DefinitionFrame
    /\ EngineFrame

\* the engine's stream ends
EngineReturns ==
    /\ pc = "executing"
    /\ pc' = "executed"
    /\ UNCHANGED <<stream, planning_result, execution_result, execution_error,
                   final_response, swarm_result, calls, raised>>
    /\ DefinitionFrame
    /\ StreamFrame

\* the engine's stream raises
EngineRaises ==
    /\ pc = "executing"
    /\ \E msg \in Messages :
          /\ Raise("engine", msg)
          /\ execution_error' = Some(msg)
    /\ pc' = "executed"
    /\ UNCHANGED <<stream, planning_result, execution_result, final_response,
                   swarm_result, calls>>
    /\ DefinitionFrame
    /\ StreamFrame

\* the failed result is built without the captured engine result
ExecutionFailed_DropsResult ==
    /\ pc = "executed"
    /\ Truthy(execution_error)
    /\ swarm_result' = Some(DynamicSwarmResult(FAILED, None, None,
                                               Len(sub_agents), Len(tasks),
                                               execution_error))
    /\ Yield(<<"execution_failed", "swarm_result">>)
    /\ pc' = "done"
    /\ UNCHANGED <<planning_result, execution_result, execution_error, final_response,
                   calls, raised>>
    /\ DefinitionFrame
    /\ StreamFrame

\* `if execution_error:`
ExecutionFailed ==
    /\ pc = "executed"
    /\ Truthy(execution_error)
    /\ swarm_result' = Some(DynamicSwarmResult(FAILED, execution_result, None,
                                               Len(sub_agents), Len(tasks),
                                               execution_error))
    /\ Yield(<<"execution_failed", "swarm_result">>)
    /\ pc' = "done"
    /\ UNCHANGED <<planning_result, execution_result, execution_error, final_response,
                   calls, raised>>
    /\ DefinitionFrame
    /\ StreamFrame

\* a run without engine result that ends after execution_failed
ExecutionWithoutResult_NoResultEvent ==
    /\ pc = "executed"
    /\ ~Truthy(execution_error)
    /\ execution_result = None
    /\ Yield(<<"execution_failed">>)
    /\ pc' = "done"
    /\ UNCHANGED <<planning_result, execution_result, execution_error, final_response,
                   swarm_result, calls, raised>>
    /\ DefinitionFrame
    /\ StreamFrame

\* `if not execution_result:`
ExecutionWithoutResult ==
    /\ pc = "executed"
    /\ ~Truthy(execution_error)
    /\ execution_result = None
    /\ swarm_result' = Some(DynamicSwarmResult(FAILED, None, None, Len(sub_agents),
                                Len(tasks),
                                Some("Graph completed without producing a result")))
    /\ Yield(<<"execution_failed", "swarm_result">>)
    /\ pc' = "done"
    /\ UNCHANGED <<planning_result, execution_result, execution_error, final_response,
                   calls, raised>>
    /\ DefinitionFrame
    /\ StreamFrame

\* the synthesis phase is announced before the execution phase is closed
ExecutionCompleted_SynthesisFirst ==
    /\ pc = "executed"
    /\ ~Truthy(execution_error)
    /\ execution_result # None
    /\ Yield(<<"synthesis_started", "execution_completed">>)
    /\ pc' = "synthesizing"
    /\ UNCHANGED <<planning_result, execution_result, execution_error, final_response,
                   swarm_result, calls, raised>>
    /\ DefinitionFrame
    /\ StreamFrame

\* a result was captured and no error: execution is over, synthesis begins
ExecutionCompleted ==
    /\ pc = "executed"
    /\ ~Truthy(execution_error)
    /\ execution_result # None
    /\ Yield(<<"execution_completed", "synthesis_started">>)
    /\ pc' = "synthesizing"
    /\ UNCHANGED <<planning_result, execution_result, execution_error, final_response,
                   swarm_result, calls, raised>>
    /\ DefinitionFrame
    /\ StreamFrame

\* stream_async after _synthesize_final_response returned `response`
Finish(response) ==
    /\ final_response' = response
    /\ Yield(<<"synthesis_completed", "swarm_result">>)
    /\ swarm_result' = Some(DynamicSwarmResult(execution_result[1].status,
                                execution_result, response, Len(sub_agents), Len(tasks),
                                StatusError(execution_result[1].status)))
    /\ pc' = "done"
    /\ UNCHANGED <<planning_result, execution_result, execution_error>>
    /\ DefinitionFrame
    /\ StreamFrame

\* no registered task has a node result: the orchestrator is not called
SynthesisSkipped ==
    /\ pc = "synthesizing"
    /\ task_outputs(execution_result[1]) = <<>>
    /\ Finish(None)
    /\ UNCHANGED <<calls, raised>>

\* the orchestrator is called whatever outputs were collected
SynthesisReturns_Always ==
    /\ pc = "synthesizing"
    /\ Invoked("synthesis")
    /\ Finish(Some("answer"))
    /\ UNCHANGED raised

\* the orchestrator is called with the collected outputs and answers
SynthesisReturns ==
    /\ pc = "synthesizing"
    /\ task_outputs(execution_result[1]) # <<>>
    /\ Invoked("synthesis")
    /\ Finish(Some("answer"))
    /\ UNCHANGED raised

\* the orchestrator is called with the collected outputs and raises
SynthesisRaises ==
    /\ pc = "synthesizing"
    /\ task_outputs(execution_result[1]) # <<>>
    /\ Invoked("synthesis")
    /\ \E msg \in Messages : Raise("synthesis", msg)
    /\ Finish(None)

NextStream ==
    \/ StreamStart
    \/ PlannerRegistersAgent
    \/ PlannerRegistersTask
    \/ PlannerReturns
    \/ PlannerRaises
    \/ PlanningFailed
    \/ NoTasksCreated
    \/ PlanningCompleted
    \/ EngineYields
    \/ EngineYieldsResult
    \/ EngineReturns
    \/ EngineRaises
    \/ ExecutionFailed
    \/ ExecutionWithoutResult
    \/ ExecutionCompleted
    \/ SynthesisSkipped
    \/ SynthesisReturns
    \/ SynthesisRaises

SpecStream == Init /\ [][NextStream]_vars

\* the events of the pipeline itself, without the engine's
PhaseEvents(events) == SelectSeq(events, LAMBDA e : ~IsRaw(e))

IsPrefix(p, q) == Len(p) <= Len(q) /\ SubSeq(q, 1, Len(p)) = p

PlanningFailedStream ==
    <<"swarm_started", "planning_started", "planning_failed", "swarm_result">>

ExecutionFailedStream ==
    <<"swarm_started", "planning_started", "planning_completed", "execution_started",
      "execution_failed", "swarm_result">>

CompletedStream ==
    <<"swarm_started", "planning_started", "planning_completed", "execution_started",
      "execution_completed", "synthesis_started", "synthesis_completed", "swarm_result">>

CompleteStreams == {PlanningFailedStream, ExecutionFailedStream, CompletedStream}

Yielded(e) == \E i \in DOMAIN stream : stream[i] = e

RaisedBy(by) == {raised[i].msg : i \in {j \in DOMAIN raised : raised[j].by = by}}

\* C15: the phases of one run are strictly ordered: the stream is
\* swarm_started, planning_started, then exactly one of planning_failed and
\* planning_completed; execution_started only after planning_completed,
\* followed by exactly one of execution_completed and execution_failed;
\* synthesis_started only after execution_completed, followed by
\* synthesis_completed; no event of an earlier phase after one of a later
\* phase. The engine's own events lie between execution_started and the
\* event that closes the execution phase.
C15_PhaseOrder ==
    /\ \E s \in CompleteStreams : IsPrefix(PhaseEvents(stream), s)
    /\ pc = "done" => PhaseEvents(stream) \in CompleteStreams
    /\ \A i \in DOMAIN stream :
          IsRaw(stream[i]) =>
              /\ \E j \in 1..(i - 1) : stream[j] = "execution_started"
              /\ \A j \in 1..(i - 1) :
                    stream[j] \notin {"execution_completed", "execution_failed"}

\* C15 witness: a finished run that went through all three phases, with
\* events of the engine passed through.
C15_Witness ==
    /\ pc = "done"
    /\ PhaseEvents(stream) = CompletedStream
    /\ Yielded("multiagent_node_stop")
    /\ Yielded("multiagent_result")

PlannedNothing ==
    /\ planning_result # None
    /\ planning_result[1].success
    /\ tasks = <<>>

\* C16: when the planner returns without a registered task the run fails:
\* the result has status Failed, an error, tasks_created = 0 and no final
\* response; the graph is not built, the engine and the synthesis are not
\* invoked.
C16_NoTasksIsFailure ==
    PlannedNothing =>
        /\ calls.build = 0
        /\ calls.engine = 0
        /\ calls.synthesis = 0
        /\ pc = "done" =>
              /\ swarm_result # None
              /\ swarm_result[1].status = FAILED
              /\ swarm_result[1].error # None
              /\ swarm_result[1].tasks_created = 0
              /\ swarm_result[1].final_response = None

\* C16 witness: a finished run whose planner registered a worker and no task.
C16_Witness ==
    /\ pc = "done"
    /\ PlannedNothing
    /\ sub_agents # <<>>
    /\ swarm_result # None

\* C17: when the planner call raises, the run still yields a result: status
\* Failed, an error that is the exception's message (a default text when the
\* message is empty); the planner was called once, the engine and the
\* synthesis not at all.
C17_PlanningErrorIsFailure ==
    \A msg \in RaisedBy("planning") :
        /\ calls.planning = 1
        /\ calls.engine = 0
        /\ calls.synthesis = 0
        /\ pc = "done" =>
              /\ swarm_result # None
              /\ swarm_result[1].status = FAILED
              /\ swarm_result[1].error # None
              /\ msg # "" => swarm_result[1].error = Some(msg)

\* C17 witness: the planner registered a task and then raised; the run ended
\* with the message as its error.
C17_Witness ==
    /\ pc = "done"
    /\ RaisedBy("planning") = {"boom"}
    /\ tasks # <<>>
    /\ swarm_result # None
    /\ swarm_result[1].error = Some("boom")

\* a registered task has a node result in the captured engine result
HasStoredResult ==
    \E name \in Keys(tasks) : name \in Keys(execution_result[1].results)

C19_SynthesisErrorAsClaimed ==
    \A msg \in RaisedBy("synthesis") :
        /\ calls.synthesis = 1
        /\ pc = "done" =>
              /\ swarm_result[1].status = FAILED
              /\ swarm_result[1].error # None
              /\ msg # "" => swarm_result[1].error = Some(msg)

\* the statuses of the node results the engine reported
ReportedAs(status) ==
    {execution_result[1].results[i].name :
        i \in {j \in DOMAIN execution_result[1].results :
                  execution_result[1].results[j].status = status}}

\* C20 (as claimed): when the engine reports some tasks Failed and others
\* Completed, get_output is null for every Failed task and the output text
\* for every Completed one, the status of the result is the engine's overall
\* status, and synthesis is attempted.
C20_OutputsAsClaimed ==
    (/\ pc = "done"
     /\ Yielded("synthesis_started")
     /\ ReportedAs(FAILED) # {}
     /\ ReportedAs(COMPLETED) # {}) =>
        /\ \A name \in ReportedAs(FAILED) : get_output(swarm_result[1], name) = None
        /\ \A name \in ReportedAs(COMPLETED) :
              get_output(swarm_result[1], name) = Some("out_" \o name)
        /\ swarm_result[1].status = execution_result[1].status
        /\ calls.synthesis = 1

\* the engine was started and its stream raised, or ended without a result
EngineFailed ==
    /\ calls.engine > 0
    /\ \/ RaisedBy("engine") # {}
       \/ execution_result = None

\* C21 (as claimed): when the engine's stream raises, with any message and
\* at any point, or ends without a result, the run ends Failed with an
\* error and no final response, execution_failed is yielded and synthesis is
\* not started; a run whose engine delivered a result and did not raise
\* closes the execution phase with execution_completed whatever the statuses
\* of the nodes.
C21_EscalationAsClaimed ==
    pc = "done" =>
        /\ EngineFailed =>
              /\ swarm_result[1].status = FAILED
              /\ swarm_result[1].error # None
              /\ swarm_result[1].final_response = None
              /\ Yielded("execution_failed")
              /\ ~Yielded("synthesis_started")
        /\ (calls.engine > 0 /\ ~EngineFailed) =>
              /\ Yielded("execution_completed")
              /\ ~Yielded("execution_failed")

\* the engine delivered a node result for the task
Delivered(name) == execution_result # None /\ name \in Keys(execution_result[1].results)

\* C22: in every result with status Failed, get_output of a task returns
\* the text of the node result the engine had delivered for it (the output
\* of a task that produced one), and null for a task without a node result
\* or when no engine result was captured; it is defined on every failure
\* path.
C22_PartialResults ==
    (pc = "done" /\ swarm_result[1].status = FAILED) =>
        \A name \in StreamNames :
            /\ Delivered(name) =>
                  get_output(swarm_result[1], name) =
                      Some(str(Get(execution_result[1].results, name).result))
            /\ (Delivered(name) /\ name \in ReportedAs(COMPLETED)) =>
                  get_output(swarm_result[1], name) = Some("out_" \o name)
            /\ ~Delivered(name) => get_output(swarm_result[1], name) = None

\* C22 witness: the engine delivered the result of "a" and then raised; the
\* run failed and the output of "a" is still there.
C22_Witness ==
    /\ pc = "done"
    /\ swarm_result[1].status = FAILED
    /\ Yielded("execution_failed")
    /\ RaisedBy("engine") = {"boom"}
    /\ get_output(swarm_result[1], "a") = Some("out_a")
    /\ get_output(swarm_result[1], "b") = None

----------------------------------------------------------------------------
(* The orchestrator tools called on the config of one run, with observers   *)
(* on the run's hook registry                                               *)

ToolNames == {"a", "b"}

\* the `tools` argument of spawn_agent: omitted, known, unknown
ToolArgs == {None, Some(<<"t1">>), Some(<<"tx">>)}

\* the `model` argument of spawn_agent: omitted, known, unknown
ModelArgs == {None, Some("m1"), Some("mx")}

\* the `depends_on` argument of create_task
DependsOnArgs == {None, Some(<<"a">>)}

\* `tools or []`, `depends_on or []`
OrEmpty(x) == IF x = None THEN <<>> ELSE x[1]

Returns(text) == tool_result' = [text |-> Some(text), raised |-> None]

ToolRaises(exception) == tool_result' = [text |-> None, raised |-> Some(exception)]

\* orchestrator._emit: the event goes to the module's hook registry, if any
orchestrator_emit(event) ==
    IF hook_registry # None
        THEN EmitEffect(event)
        ELSE /\ emitted' = <<event>>
             /\ UNCHANGED delivered

orchestrator_emit_raises(event) == hook_registry # None /\ EmitRaises(event)

\* the exception that leaves _emit: the one of the first callback that raises
orchestrator_emit_exception(event) ==
    LET invoked == invoke_callbacks(event).order
    IN  IF invoked[Len(invoked)] \in ValueErrorObservers
            THEN "ValueError"
            ELSE "CallbackError"

\* `except ValueError` around register and _emit: a ValueError out of a
\* callback is returned as failure text, any other exception leaves the tool
AfterEmitRaised(event) ==
    IF orchestrator_emit_exception(event) = "ValueError"
        THEN Returns("Failed")
        ELSE ToolRaises("CallbackError")

\* get_swarm_config raises RuntimeError
get_swarm_config_raises == swarm_config = None

\* the spawn_agent tool
spawn_agent_tool(name, tool_names, model) ==
    IF get_swarm_config_raises
    THEN /\ ToolRaises("RuntimeError")
         /\ last' = Call("spawn_agent", NameArg(name), "RuntimeError")
         /\ NoEmit
         /\ UNCHANGED <<sub_agents, color_index>>
    ELSE /\ register_agent(AgentDefinition(name, "role", None, OrEmpty(tool_names),
                                           model, None))
         /\ IF last'.err # Ok
            THEN /\ Returns("Failed")
                 /\ NoEmit
            ELSE LET event == Event("AgentSpawnedEvent", Some(name), last'.arg.color)
                 IN  /\ orchestrator_emit(event)
                     /\ IF orchestrator_emit_raises(event)
                        THEN AfterEmitRaised(event)
                        ELSE Returns("Spawned")

\* the create_task tool
create_task_tool(name, agent_name, depends_on) ==
    IF get_swarm_config_raises
    THEN /\ ToolRaises("RuntimeError")
         /\ last' = Call("create_task", NameArg(name), "RuntimeError")
         /\ NoEmit
         /\ UNCHANGED tasks
    ELSE /\ register_task(TaskDefinition(name, agent_name, None, OrEmpty(depends_on)))
         /\ IF last'.err # Ok
            THEN /\ Returns("Failed")
                 /\ NoEmit
            ELSE LET event == TaskCreatedEvent(name, agent_name, None,
                                               OrEmpty(depends_on))
                 IN  /\ orchestrator_emit(event)
                     /\ IF orchestrator_emit_raises(event)
                        THEN AfterEmitRaised(event)
                        ELSE Returns("Created")

\* the finalize_plan tool
finalize_plan ==
    IF get_swarm_config_raises
    THEN /\ ToolRaises("RuntimeError")
         /\ last' = Call("finalize_plan", NameArg(""), "RuntimeError")
         /\ NoEmit
    ELSE LET event == Event("PlanningCompletedEvent", None,
                            <<Keys(sub_agents), Keys(tasks)>>)
         IN  /\ last' = Call("finalize_plan", NameArg(""), Ok)
             /\ orchestrator_emit(event)
             /\ IF orchestrator_emit_raises(event)
                THEN ToolRaises("CallbackError")
                ELSE Returns("Planning complete")

ToolFrame ==
    UNCHANGED <<tm_tasks, clock, callbacks, event_log, threads, run_vars, stream_vars,
                build_vars, registry_config, current_task>>

\* execute_async installs the fresh config of the run and its hook registry
ToolsRunStart ==
    /\ swarm_config = None
    /\ sub_agents = <<>>
    /\ set_swarm_config(Some("A"), Some("A"))
    /\ UNCHANGED <<tm_tasks, clock, sub_agents, tasks, color_index, callbacks, delivered,
                   last, emitted, event_log, threads, runs, stream_vars, tool_vars,
                   build_vars>>

\* the finally block of execute_async
ToolsRunEnd ==
    /\ swarm_config # None
    /\ set_swarm_config(None, None)
    /\ UNCHANGED <<tm_tasks, clock, sub_agents, tasks, color_index, callbacks, delivered,
                   last, emitted, event_log, threads, runs, stream_vars, tool_vars,
                   build_vars>>

\* the observers of a run: one that returns, one that raises, one that
\* raises a ValueError
ToolObservers == ObsObservers \cup ValueErrorObservers

ToolsAddHook ==
    /\ \E observer \in ToolObservers :
          /\ ~Registered(observer)
          /\ register_hooks(observer)
          /\ last' = Call("add_hook", NameArg(observer), Ok)
    /\ NoEmit
    /\ UNCHANGED <<tm_tasks, clock, sub_agents, tasks, color_index, event_log, threads,
                   flow_vars>>

ToolsSpawnAgent ==
    /\ \E tool_names \in ToolArgs, model \in ModelArgs :
          spawn_agent_tool("w1", tool_names, model)
    /\ UNCHANGED tasks
    /\ ToolFrame

ToolsCreateTask ==
    /\ \E name \in ToolNames, agent_name \in {"w1", "wx"}, depends_on \in DependsOnArgs :
          create_task_tool(name, agent_name, depends_on)
    /\ UNCHANGED <<sub_agents, color_index>>
    /\ ToolFrame

ToolsFinalizePlan ==
    /\ finalize_plan
    /\ UNCHANGED <<sub_agents, tasks, color_index>>
    /\ ToolFrame

NextTools ==
    \/ ToolsRunStart
    \/ ToolsRunEnd
    \/ ToolsAddHook
    \/ ToolsSpawnAgent
    \/ ToolsCreateTask
    \/ ToolsFinalizePlan

SpecTools == Init /\ [][NextTools]_vars

ToolStep == ToolsSpawnAgent \/ ToolsCreateTask \/ ToolsFinalizePlan

\* C23 (as claimed): every call of spawn_agent, create_task or finalize_plan
\* returns text and does not raise, in every state; a registration error is
\* returned as failure text and leaves the registries as they were, and a
\* call whose registration is accepted returns the success text.
C23_ToolsReturnTextAsClaimed ==
    [][ToolStep =>
        /\ tool_result'.raised = None
        /\ tool_result'.text # None
        /\ last'.err # Ok =>
              /\ tool_result'.text = Some("Failed")
              /\ UNCHANGED <<sub_agents, tasks, color_index>>
        /\ last'.err = Ok => tool_result'.text # Some("Failed")]_vars

----------------------------------------------------------------------------
(* build_swarm: the graph built from the registered tasks *)

BuildWorkers == {"w1", "w2"}

\* the tasks of the diamond fetch, a(fetch), b(fetch), merge(a, b), a task
\* that names its dependency twice, and the diamond's join with its
\* dependencies in the other order
BuildTaskDefs ==
    {TaskDefinition("fetch", "w1", None, <<>>),
     TaskDefinition("a", "w1", None, <<"fetch">>),
     TaskDefinition("a", "w2", None, <<"fetch", "fetch">>),
     TaskDefinition("b", "w2", None, <<"fetch">>),
     TaskDefinition("merge", "w1", None, <<"a", "b">>),
     TaskDefinition("merge", "w2", None, <<"b", "a">>)}

\* GraphBuilder.add_node: one node per call, under its node id
add_node(nodes, executor, node_id) ==
    Append(nodes, [node_id |-> node_id, executor |-> executor])

\* an edge added from the dependent to its dependency
add_edge_Reversed(edges, from_node, to_node) == edges \cup {<<to_node, from_node>>}

\* GraphBuilder.add_edge: the builder keeps its edges in a set
add_edge(edges, from_node, to_node) == edges \cup {<<from_node, to_node>>}

\* the first loop of build_swarm: add_node for the tasks from the i-th on
RECURSIVE AddNodes(_, _)
AddNodes(nodes, i) ==
    IF i > Len(tasks)
        THEN nodes
        ELSE AddNodes(add_node(nodes, tasks[i].agent, tasks[i].name), i + 1)

\* the inner loop of build_swarm: add_edge for the dependencies of one task
\* from the j-th on
RECURSIVE AddEdgesOf(_, _, _)
AddEdgesOf(edges, task, j) ==
    IF j > Len(task.depends_on)
        THEN edges
        ELSE AddEdgesOf(add_edge(edges, task.depends_on[j], task.name), task, j + 1)

\* the second loop of build_swarm
RECURSIVE AddEdges(_, _)
AddEdges(edges, i) ==
    IF i > Len(tasks)
        THEN edges
        ELSE AddEdges(AddEdgesOf(edges, tasks[i], 1), i + 1)

\* build_swarm raises ValueError without tasks, otherwise returns the graph
build_swarm ==
    IF tasks = <<>>
        THEN /\ last' = Call("build_swarm", NameArg(""), "NoTasks")
             /\ UNCHANGED graph
        ELSE /\ graph' = Some([nodes |-> AddNodes(<<>>, 1), edges |-> AddEdges({}, 1)])
             /\ last' = Call("build_swarm", NameArg(""), Ok)

BuildFrame ==
    UNCHANGED <<tm_tasks, clock, callbacks, delivered, event_log, threads, run_vars,
                stream_vars, tool_vars>>

BuildRegisterAgent ==
    /\ graph = None
    /\ \E name \in BuildWorkers :
          register_agent(AgentDefinition(name, "role", None, <<>>, None, None))
    /\ UNCHANGED <<tasks, emitted, graph>>
    /\ BuildFrame

BuildRegisterTask ==
    /\ graph = None
    /\ \E definition \in BuildTaskDefs : register_task(definition)
    /\ UNCHANGED <<sub_agents, color_index, emitted, graph>>
    /\ BuildFrame

Build ==
    /\ graph = None
    /\ build_swarm
    /\ UNCHANGED <<sub_agents, tasks, color_index, emitted>>
    /\ BuildFrame

NextBuild ==
    \/ BuildRegisterAgent
    \/ BuildRegisterTask
    \/ Build

SpecBuild == Init /\ [][NextBuild]_vars

\* the (dependency, dependent) pairs of the registry
DependencyPairs ==
    UNION {{<<tasks[i].depends_on[j], tasks[i].name>> : j \in DOMAIN tasks[i].depends_on} :
              i \in DOMAIN tasks}

IsDiamond == Keys(tasks) = {"fetch", "a", "b", "merge"}

C25_LifecycleFollowsEngineAsClaimed ==
    (pc = "done" /\ Yielded("execution_completed")) =>
        \A name \in Keys(tasks) :
            /\ name \in Keys(tm_tasks)
            /\ Get(tm_tasks, name).status =
                  (IF Delivered(name)
                      THEN Get(execution_result[1].results, name).status
                      ELSE PENDING)

----------------------------------------------------------------------------
(* One run of the hook-based pipeline: DynamicSwarm.execute_async of        *)
(* swarm.py, whose events go to the hook registry                           *)

ExecNames == {"a", "b"}

\* the overall statuses the engine may report
EngineStatuses == {COMPLETED, FAILED, INTERRUPTED}

\* DynamicSwarm._emit of swarm.py: the event is passed to the hook registry
Emits(events) == event_log' = event_log \o events

PipelineEvent(kind, payload) == Event(kind, None, payload)

ExecFrame ==
    UNCHANGED <<tm_tasks, clock, callbacks, delivered, emitted, threads, runs, stream,
                execution_error, engine_events, tool_vars, build_vars>>

\* execute_async up to the planning call
ExecStart ==
    /\ pc = "idle"
    /\ set_swarm_config(Some("A"), Some("A"))
    /\ Emits(<<PipelineEvent("SwarmStartedEvent", None),
               PipelineEvent("PlanningStartedEvent", None)>>)
    /\ Invoked("planning")
    /\ pc' = "planning"
    /\ UNCHANGED <<sub_agents, tasks, color_index, last, planning_result,
                   execution_result, final_response, swarm_result, raised>>
    /\ ExecFrame

\* the planner calls spawn_agent
ExecSpawnAgent ==
    /\ pc = "planning"
    /\ register_agent(AgentDefinition("w1", "role", None, <<>>, None, None))
    /\ IF last'.err = Ok
          THEN Emits(<<PipelineEvent("AgentSpawnedEvent", Some("w1"))>>)
          ELSE UNCHANGED event_log
    /\ UNCHANGED <<tasks, swarm_config, hook_registry, pc, planning_result,
                   execution_result, final_response, swarm_result, calls, raised>>
    /\ ExecFrame

\* the planner calls create_task
ExecCreateTask ==
    /\ pc = "planning"
    /\ \E name \in ExecNames :
          /\ register_task(TaskDefinition(name, "w1", None, <<>>))
          /\ IF last'.err = Ok
                THEN Emits(<<PipelineEvent("TaskCreatedEvent", Some(name))>>)
                ELSE UNCHANGED event_log
    /\ UNCHANGED <<sub_agents, color_index, swarm_config, hook_registry, pc,
                   planning_result, execution_result, final_response, swarm_result,
                   calls, raised>>
    /\ ExecFrame

\* _run_planning returns
ExecPlannerReturns ==
    /\ pc = "planning"
    /\ planning_result' = Some([success |-> TRUE, error |-> None])
    /\ pc' = "planned"
    /\ UNCHANGED <<sub_agents, tasks, color_index, last, swarm_config, hook_registry,
                   event_log, execution_result, final_response, swarm_result, calls,
                   raised>>
    /\ ExecFrame

\* _run_planning catches the planner's exception
ExecPlannerRaises ==
    /\ pc = "planning"
    /\ \E msg \in Messages :
          /\ Raise("planning", msg)
          /\ planning_result' = Some([success |-> FALSE, error |-> Some(msg)])
    /\ pc' = "planned"
    /\ UNCHANGED <<sub_agents, tasks, color_index, last, swarm_config, hook_registry,
                   event_log, execution_result, final_response, swarm_result, calls>>
    /\ ExecFrame

\* a return or an exception leaves execute_async through its finally block
Leave ==
    /\ set_swarm_config(None, None)
    /\ pc' = "done"

\* `if not planning_result.success`: the result is built without counts
ExecPlanningFailed ==
    /\ pc = "planned"
    /\ ~planning_result[1].success
    /\ Emits(<<PipelineEvent("SwarmFailedEvent",
                             Some(PyOr(planning_result[1].error, "Orchestration failed")))>>)
    /\ swarm_result' = Some(DynamicSwarmResult(FAILED, None, None, 0, 0,
                                               planning_result[1].error))
    /\ Leave
    /\ UNCHANGED <<sub_agents, tasks, color_index, last, planning_result,
                   execution_result, final_response, calls, raised>>
    /\ ExecFrame

\* `if not config.tasks`: the result is built without counts
ExecNoTasks ==
    /\ pc = "planned"
    /\ planning_result[1].success
    /\ tasks = <<>>
    /\ Emits(<<PipelineEvent("SwarmFailedEvent",
                             Some("Orchestration completed but no tasks were created"))>>)
    /\ swarm_result' = Some(DynamicSwarmResult(FAILED, None, None, 0, 0,
                                Some("Orchestration completed but no tasks were created")))
    /\ Leave
    /\ UNCHANGED <<sub_agents, tasks, color_index, last, planning_result,
                   execution_result, final_response, calls, raised>>
    /\ ExecFrame

\* build_swarm returns and the graph is invoked
ExecBuild ==
    /\ pc = "planned"
    /\ planning_result[1].success
    /\ tasks # <<>>
    /\ Emits(<<PipelineEvent("ExecutionStartedEvent", Some(Keys(tasks)))>>)
    /\ calls' = [calls EXCEPT !.build = @ + 1, !.engine = @ + 1]
    /\ pc' = "executing"
    /\ UNCHANGED <<sub_agents, tasks, color_index, last, swarm_config, hook_registry,
                   planning_result, execution_result, final_response, swarm_result,
                   raised>>
    /\ ExecFrame

\* build_swarm raises: nothing in execute_async catches the exception
ExecBuildRaises ==
    /\ pc = "planned"
    /\ planning_result[1].success
    /\ tasks # <<>>
    /\ \E msg \in Messages : Raise("build", msg)
    /\ Invoked("build")
    /\ Leave
    /\ UNCHANGED <<sub_agents, tasks, color_index, last, event_log, planning_result,
                   execution_result, final_response, swarm_result>>
    /\ ExecFrame

\* graph.invoke_async raises: nothing in execute_async catches the exception
ExecEngineRaises ==
    /\ pc = "executing"
    /\ \E msg \in Messages : Raise("engine", msg)
    /\ Leave
    /\ UNCHANGED <<sub_agents, tasks, color_index, last, event_log, planning_result,
                   execution_result, final_response, swarm_result, calls>>
    /\ ExecFrame

\* graph.invoke_async returns a result with an overall status
ExecEngineReturns ==
    /\ pc = "executing"
    /\ \E status \in EngineStatuses :
          /\ execution_result' = Some([status |-> status, results |-> <<>>])
          /\ Emits(<<PipelineEvent("ExecutionCompletedEvent", Some(status))>>)
    /\ pc' = "completing"
    /\ UNCHANGED <<sub_agents, tasks, color_index, last, swarm_config, hook_registry,
                   planning_result, final_response, swarm_result, calls, raised>>
    /\ ExecFrame

\* _run_completion returns a text or None (it swallows the orchestrator's
\* exceptions); SwarmCompletedEvent is emitted and the result is returned
ExecCompletion ==
    /\ pc = "completing"
    /\ \E response \in {None, Some("answer")} :
          /\ final_response' = response
          /\ swarm_result' = Some(DynamicSwarmResult(execution_result[1].status,
                                      execution_result, response, Len(sub_agents),
                                      Len(tasks), None))
    /\ Emits(<<PipelineEvent("SwarmCompletedEvent", None)>>)
    /\ Leave
    /\ UNCHANGED <<sub_agents, tasks, color_index, last, planning_result,
                   execution_result, calls, raised>>
    /\ ExecFrame

NextExec ==
    \/ ExecStart
    \/ ExecSpawnAgent
    \/ ExecCreateTask
    \/ ExecPlannerReturns
    \/ ExecPlannerRaises
    \/ ExecPlanningFailed
    \/ ExecNoTasks
    \/ ExecBuild
    \/ ExecBuildRaises
    \/ ExecEngineRaises
    \/ ExecEngineReturns
    \/ ExecCompletion

SpecExec == Init /\ [][NextExec]_vars

FinalKinds == {"SwarmCompletedEvent", "SwarmFailedEvent"}

\* the overall status of a finished run: that of its result, Failed when the
\* call raised instead of returning one
OverallStatus == IF swarm_result = None THEN FAILED ELSE swarm_result[1].status

\* C26 (as claimed): a finished run of the hook-based pipeline has emitted
\* exactly one of SwarmCompleted and SwarmFailed, as its last event:
\* SwarmCompleted when its overall status is Completed, SwarmFailed on every
\* other outcome, an engine status of Failed or Interrupted and an exception
\* of build_swarm or of the engine included.
C26_OneFinalEventAsClaimed ==
    pc = "done" =>
        /\ Cardinality({i \in DOMAIN event_log : event_log[i].kind \in FinalKinds}) = 1
        /\ event_log[Len(event_log)].kind =
              (IF OverallStatus = COMPLETED
                  THEN "SwarmCompletedEvent" ELSE "SwarmFailedEvent")

\* C28 (as claimed): the result of every run, on the success path and on
\* every failure path, carries the number of workers and the number of
\* tasks that were registered successfully during the run.
C28_CountsAsClaimed ==
    (pc = "done" /\ swarm_result # None) =>
        /\ swarm_result[1].agents_spawned = Len(sub_agents)
        /\ swarm_result[1].tasks_created = Len(tasks)

\* C27: the events of the engine's stream are yielded as they are, each
\* once and in the engine's order, and every one of them lies after
\* execution_started and before the execution_completed or execution_failed
\* event of the run.
C27_Passthrough ==
    /\ SelectSeq(stream, IsRaw) = engine_events
    /\ \A i \in DOMAIN stream :
          IsRaw(stream[i]) =>
              /\ \E j \in 1..(i - 1) : stream[j] = "execution_started"
              /\ \A j \in 1..i :
                    stream[j] \notin {"execution_completed", "execution_failed"}
    /\ pc = "done" =>
          (engine_events # <<>> =>
              (Yielded("execution_completed") \/ Yielded("execution_failed")))

\* C27 witness: the engine produced a node start, a node stop and its result
\* event, and the finished run has yielded the three in that order.
C27_Witness ==
    /\ pc = "done"
    /\ engine_events = <<"multiagent_node_start", "multiagent_node_stop", "multiagent_result">>
    /\ SelectSeq(stream, IsRaw) = engine_events
    /\ Yielded("execution_completed")

----------------------------------------------------------------------------
(* The registries of a run: registration, lookup and clear on one SwarmConfig
   and one TaskManager *)

\* a lookup that ignores the key and returns the oldest entry
get_Oldest(d, name) == IF d = <<>> THEN None ELSE Some(d[1])

\* dict.get(name): the stored value, or None for a missing key
get(d, name) == IF name \in Keys(d) THEN Some(Get(d, name)) ELSE None

\* SwarmConfig.clear
SwarmConfig_clear ==
    /\ sub_agents' = <<>>
    /\ tasks' = <<>>
    /\ color_index' = 0
    /\ last' = Call("SwarmConfig.clear", None, Ok)

\* TaskManager.clear
TaskManager_clear ==
    /\ tm_tasks' = <<>>
    /\ last' = Call("TaskManager.clear", None, Ok)

RegistryWorkers == {"w1", "w2"}

\* w1 with a valid and with an unknown tool, w2 with a valid model
RegistryAgentDefs ==
    {AgentDefinition("w1", "role", None, <<"t1">>, None, None),
     AgentDefinition("w1", "role", None, <<"tx">>, None, None),
     AgentDefinition("w2", "role", None, <<>>, Some("m1"), None)}

RegistryTaskDefs ==
    {TaskDefinition(n, w, None, deps) :
        n \in PairNames, w \in {"w1", "wx"}, deps \in {<<>>, <<"a">>}}

RegistryDependsOn == {None, Some(<<"b">>)}

RegistryFrame ==
    /\ UNCHANGED <<clock, callbacks>>
    /\ UNCHANGED pipeline_vars

RegistryRegisterAgent ==
    /\ \E definition \in RegistryAgentDefs : register_agent(definition)
    /\ UNCHANGED <<tm_tasks, tasks>>
    /\ NoEmit
    /\ RegistryFrame

RegistryRegisterTask ==
    /\ \E definition \in RegistryTaskDefs : register_task(definition)
    /\ UNCHANGED <<tm_tasks, sub_agents, color_index>>
    /\ NoEmit
    /\ RegistryFrame

RegistryCreate ==
    /\ \E name \in PairNames, depends_on \in RegistryDependsOn :
          create(name, "w1", None, depends_on)
    /\ UNCHANGED <<sub_agents, tasks, color_index>>
    /\ RegistryFrame

RegistryConfigClear ==
    /\ SwarmConfig_clear
    /\ UNCHANGED tm_tasks
    /\ NoEmit
    /\ RegistryFrame

RegistryTaskManagerClear ==
    /\ TaskManager_clear
    /\ UNCHANGED <<sub_agents, tasks, color_index>>
    /\ NoEmit
    /\ RegistryFrame

NextRegistry ==
    \/ RegistryRegisterAgent
    \/ RegistryRegisterTask
    \/ RegistryCreate
    \/ RegistryConfigClear
    \/ RegistryTaskManagerClear

SpecRegistry == Init /\ [][NextRegistry]_vars

\* every entry of the registry d is an entry of e, under the same name and
\* with the same definition
Kept(d, e) == \A n \in Keys(d) : n \in Keys(e) /\ Get(e, n) = Get(d, n)

\* C29: the registries are grow-only and write-once per key: every step
\* keeps each registered worker and task in its registry with the same
\* definition, and no registry gets shorter.
C29_GrowOnlyAsClaimed ==
    [][/\ Kept(sub_agents, sub_agents')
       /\ Kept(tasks, tasks')
       /\ Kept(tm_tasks, tm_tasks')
       /\ Len(sub_agents') >= Len(sub_agents)
       /\ Len(tasks') >= Len(tasks)
       /\ Len(tm_tasks') >= Len(tm_tasks)]_vars

RegistrationOps == {"register_agent", "register_task", "create"}

WithoutColor(found) == IF found = None THEN None ELSE Some([found[1] EXCEPT !.color = None])

\* one registration step, and what the lookups return after it
AgentRoundTrip ==
    \A definition \in RegistryAgentDefs :
        (register_agent(definition) /\ UNCHANGED <<tm_tasks, tasks>>) =>
            IF last'.err = Ok
            THEN /\ get(sub_agents, definition.name) = None
                 /\ WithoutColor(get(sub_agents', definition.name)) = Some(definition)
                 /\ get(sub_agents', definition.name)[1].color # None
            ELSE get(sub_agents', definition.name) = get(sub_agents, definition.name)

TaskRoundTrip ==
    \A definition \in RegistryTaskDefs :
        (register_task(definition) /\ UNCHANGED <<tm_tasks, sub_agents, color_index>>) =>
            IF last'.err = Ok
            THEN /\ get(tasks, definition.name) = None
                 /\ get(tasks', definition.name) = Some(definition)
            ELSE get(tasks', definition.name) = get(tasks, definition.name)

CreateRoundTrip ==
    \A name \in PairNames, depends_on \in RegistryDependsOn :
        (create(name, "w1", None, depends_on)
            /\ UNCHANGED <<sub_agents, tasks, color_index>>) =>
            IF last'.err = Ok
            THEN /\ get(tm_tasks, name) = None
                 /\ get(tm_tasks', name) =
                        Some(NewTask(name, "w1", None, OrEmptyList(depends_on)))
            ELSE get(tm_tasks', name) = get(tm_tasks, name)

\* the names a lookup may be asked for, registered or not
LookupNames == RegistryWorkers \cup PairNames \cup {"wx", "merge"}

\* a lookup for a name the registry does not hold returns None
AbsentIsNone ==
    \A n \in LookupNames :
        /\ n \notin Keys(sub_agents') => get(sub_agents', n) = None
        /\ n \notin Keys(tasks') => get(tasks', n) = None
        /\ n \notin Keys(tm_tasks') => get(tm_tasks', n) = None

\* C30: lookup round trip: a successful registration of n makes get(n) return
\* the registered definition (equal in every field but the assigned color),
\* every registration step leaves the lookups of the names registered before
\* it as they were, a failed registration changes no lookup, and get for a
\* name the registry does not hold returns None.
C30_LookupRoundTrip ==
    [][last'.op \in RegistrationOps =>
          /\ AgentRoundTrip
          /\ TaskRoundTrip
          /\ CreateRoundTrip
          /\ \A n \in Keys(sub_agents) : get(sub_agents', n) = get(sub_agents, n)
          /\ \A n \in Keys(tasks) : get(tasks', n) = get(tasks, n)
          /\ \A n \in Keys(tm_tasks) : get(tm_tasks', n) = get(tm_tasks, n)
          /\ last'.err # Ok => UNCHANGED <<sub_agents, tasks, tm_tasks>>
          /\ AbsentIsNone]_vars

\* C30 witness: w1 and then w2 were registered, task a for w1 is registered
\* and recorded; the lookups return the three definitions and the record,
\* w1 with the first color, and "merge" is absent everywhere.
C30_Witness ==
    /\ WithoutColor(get(sub_agents, "w1")) =
           Some(AgentDefinition("w1", "role", None, <<"t1">>, None, None))
    /\ get(sub_agents, "w1")[1].color = Some(AGENT_COLORS[1])
    /\ WithoutColor(get(sub_agents, "w2")) =
           Some(AgentDefinition("w2", "role", None, <<>>, Some("m1"), None))
    /\ get(tasks, "a") = Some(TaskDefinition("a", "w1", None, <<>>))
    /\ get(tm_tasks, "a") = Some(NewTask("a", "w1", None, <<>>))
    /\ get(tasks, "merge") = None
    /\ get(tm_tasks, "merge") = None
    /\ last = Call("register_task", TaskDefinition("b", "wx", None, <<>>), "AgentNotFound")

----------------------------------------------------------------------------
(* Further properties of the task lifecycle *)

ManagerOps == {"start", "complete", "fail", "interrupt"}

\* C31: a start/complete/fail/interrupt call on task n, accepted or rejected,
\* leaves every other task as it was (status, timestamps, result and error
\* included) and leaves the set of tasks unchanged; complete, fail and
\* interrupt leave the started_at of task n unchanged.
C31_LifecycleFrame ==
    [][last'.op \in ManagerOps =>
          /\ Keys(tm_tasks') = Keys(tm_tasks)
          /\ Len(tm_tasks') = Len(tm_tasks)
          /\ \A i \in DOMAIN tm_tasks :
                tm_tasks[i].name # last'.arg.name => tm_tasks'[i] = tm_tasks[i]
          /\ (last'.op # "start" /\ last'.arg.name \in Keys(tm_tasks)) =>
                Get(tm_tasks', last'.arg.name).started_at =
                    Get(tm_tasks, last'.arg.name).started_at]_vars

\* C31 witness: b was completed with a result while a, started before it, is
\* still executing.
C31_Witness ==
    /\ last = Call("complete", NameArg("b"), Ok)
    /\ Keys(tm_tasks) = {"a", "b"}
    /\ Get(tm_tasks, "a").status = EXECUTING
    /\ Get(tm_tasks, "a").started_at = Some(1)
    /\ Get(tm_tasks, "b").status = COMPLETED
    /\ Get(tm_tasks, "b").started_at = Some(2)
    /\ Get(tm_tasks, "b").result = Some("r1")

----------------------------------------------------------------------------
(* Roots of the task registry and of the built graph *)

\* the node ids of the graph without an incoming edge
Roots(g) ==
    {g.nodes[i].node_id : i \in DOMAIN g.nodes} \ {edge[2] : edge \in g.edges}

\* C32: a task registry that holds a task holds one with an empty dependency
\* list, the first one registered, and a graph built from the registry has a
\* node without an incoming edge.
C32_AlwaysARoot ==
    /\ tasks # <<>> =>
          /\ tasks[1].depends_on = <<>>
          /\ \E i \in DOMAIN tasks : tasks[i].depends_on = <<>>
    /\ graph # None =>
          /\ Roots(graph[1]) # {}
          /\ tasks[1].name \in Roots(graph[1])

\* C32 witness: registrations of a, b and merge were rejected or accepted
\* only after fetch; the diamond was built and fetch is its only root.
C32_Witness ==
    /\ graph # None
    /\ IsDiamond
    /\ tasks[1].name = "fetch"
    /\ Roots(graph[1]) = {"fetch"}

----------------------------------------------------------------------------
(* The result of a run: the swarm_result event and execute_async *)

IsResultEvent(e) == e = "swarm_result"

\* execute_async: consumes the stream of stream_async, keeps the result of
\* the swarm_result events it sees and returns the last one; raises
\* RuntimeError when the stream ended without one
execute_async ==
    IF SelectSeq(stream, IsResultEvent) = <<>> \/ swarm_result = None
        THEN [returned |-> None, raises |-> Some("RuntimeError")]
        ELSE [returned |-> swarm_result, raises |-> None]

\* C33: a run of stream_async that has ended has yielded exactly one
\* swarm_result event, as its last event, on every path; a run that has not
\* ended has yielded none; execute_async returns the result of that event
\* and does not raise.
C33_OneResultLast ==
    /\ pc = "done" =>
          /\ Len(SelectSeq(stream, IsResultEvent)) = 1
          /\ stream[Len(stream)] = "swarm_result"
          /\ swarm_result # None
          /\ execute_async = [returned |-> swarm_result, raises |-> None]
    /\ pc # "done" =>
          /\ SelectSeq(stream, IsResultEvent) = <<>>
          /\ swarm_result = None

\* C33 witness: the engine yielded node events and raised; the run ended with
\* execution_failed and then its single swarm_result event, which carries a
\* failed result.
C33_Witness ==
    /\ pc = "done"
    /\ engine_events # <<>>
    /\ RaisedBy("engine") = {"boom"}
    /\ Len(stream) >= 2
    /\ stream[Len(stream) - 1] = "execution_failed"
    /\ stream[Len(stream)] = "swarm_result"
    /\ execute_async.returned[1].status = FAILED

\* C34: status and payload of every task agree: a Pending or Executing task
\* has neither result nor error, a Completed task has no error, a Failed or
\* Interrupted task has no result.
C34_StatusPayload ==
    \A i \in DOMAIN tm_tasks :
        LET t == tm_tasks[i]
        IN  /\ t.status \in {PENDING, EXECUTING} => (t.result = None /\ t.error = None)
            /\ t.status = COMPLETED => t.error = None
            /\ t.status \in {FAILED, INTERRUPTED} => t.result = None

\* C34 witness: a completed with a result, b failed with an error.
C34_Witness ==
    /\ Keys(tm_tasks) = {"a", "b"}
    /\ Get(tm_tasks, "a").status = COMPLETED
    /\ Get(tm_tasks, "a").result = Some("r1")
    /\ Get(tm_tasks, "b").status = FAILED
    /\ Get(tm_tasks, "b").error = Some("e1")

----------------------------------------------------------------------------
(* Lifecycle calls statement by statement, one call at a time, with observers
   registered: what an observer finds when the event is delivered *)

\* the calls are made one after the other: no other thread is inside a call,
\* and t2 makes its calls after t1 has made all of its own
Alone(t) ==
    /\ \A u \in Threads \ {t} : threads[u].pc = "idle"
    /\ t = "t2" => threads["t1"].calls = MaxThreadCalls

\* the observers are registered before the first notification arrives
SeqAddHook ==
    /\ \A t \in Threads : threads[t] = IdleThread
    /\ ObsAddHook

SeqCreate == ConcCreate

SeqCheck(t) == Alone(t) /\ ThreadCheck(t)

SeqSetStatus(t) == ThreadSetStatus(t)

SeqStamp(t) == ThreadStamp(t)

SeqEmit(t) == ThreadEmit(t)

NextSeq ==
    \/ SeqAddHook
    \/ SeqCreate
    \/ \E t \in Threads : SeqCheck(t)
    \/ \E t \in Threads : SeqSetStatus(t)
    \/ \E t \in Threads : SeqStamp(t)
    \/ \E t \in Threads : SeqEmit(t)

SpecSeq == Init /\ [][NextSeq]_vars

\* the step delivers the lifecycle event of the call of thread t
Delivers(t) ==
    /\ threads[t].pc # "idle"
    /\ threads'[t].pc = "idle"
    /\ emitted' # <<>>

\* the task as the accepted call of thread t leaves it, given the task before
\* the call wrote its timestamp
Written(t, task) ==
    /\ task.status = threads[t].new_status
    /\ threads[t].new_status = EXECUTING => task.started_at # None
    /\ threads[t].new_status \in TERMINAL_STATUSES => task.completed_at # None
    /\ "result" \in DOMAIN threads[t].kwargs => task.result = threads[t].kwargs["result"]
    /\ "error" \in DOMAIN threads[t].kwargs => task.error = threads[t].kwargs["error"]

\* the step begins a call that repeats the call that has just raised out of
\* a callback
Retries(t) ==
    /\ last.err = "CallbackError"
    /\ threads[t].pc = "idle"
    /\ threads'[t].calls = threads[t].calls + 1
    /\ threads'[t].op = last.op
    /\ threads'[t].name = last.arg.name

\* C35: when the event of an accepted lifecycle call is delivered, the new
\* status, the timestamp and the payload of the task are already written, so
\* the observers read them; when an observer raises, the call raises and the
\* task keeps the new status; a repetition of that call is rejected as an
\* illegal transition.
C35_WriteBeforeDeliver ==
    [][\A t \in Threads :
          /\ Delivers(t) =>
                /\ emitted'[1] = threads[t].event
                /\ Written(t, Get(tm_tasks, threads[t].name))
                /\ tm_tasks' = tm_tasks
                /\ has_callbacks => delivered'.event = threads[t].event
                /\ (has_callbacks /\ delivered'.raised) <=> last'.err = "CallbackError"
                /\ last'.err \in {Ok, "CallbackError"}
          /\ Retries(t) =>
                /\ threads'[t].pc = "idle"
                /\ threads'[t].err = "InvalidTransition"
                /\ last'.err = "InvalidTransition"
                /\ tm_tasks' = tm_tasks]_vars

\* C35 witness: with the failing observer registered, complete on a raised
\* out of the callback, the task is Completed with its result, and the
\* repeated complete has just been rejected.
C35_Witness ==
    /\ Registered("X")
    /\ \E i \in DOMAIN event_log : event_log[i] = TaskCompletedEvent("a", Some("r1"))
    /\ delivered.raised
    /\ delivered.event = TaskCompletedEvent("a", Some("r1"))
    /\ Get(tm_tasks, "a").status = COMPLETED
    /\ Get(tm_tasks, "a").result = Some("r1")
    /\ last = Call("complete", NameArg("a"), "InvalidTransition")

----------------------------------------------------------------------------
(* Lifecycle calls for a task that was never created *)

\* C36: start, complete, fail or interrupt for a name that was never created
\* raises the missing-key error, not the invalid-transition error; it passes
\* no event to _emit, invokes no callback, creates no task and changes no
\* task; get for that name returns None before and after.
C36_UnknownTask ==
    [][(last'.op \in ManagerOps /\ last'.arg.name \notin Keys(tm_tasks)) =>
          /\ last'.err = "KeyError"
          /\ tm_tasks' = tm_tasks
          /\ clock' = clock
          /\ emitted' = <<>>
          /\ delivered' = delivered
          /\ event_log' = event_log
          /\ get(tm_tasks, last'.arg.name) = None
          /\ get(tm_tasks', last'.arg.name) = None]_vars

\* C36 witness: with an observer registered and task a executing, complete
\* for b, which was never created, has just raised the missing-key error.
C36_Witness ==
    /\ has_callbacks
    /\ Keys(tm_tasks) = {"a"}
    /\ Get(tm_tasks, "a").status = EXECUTING
    /\ last = Call("complete", NameArg("b"), "KeyError")
    /\ emitted = <<>>
    /\ \A i \in DOMAIN event_log : event_log[i].name # "b"

----------------------------------------------------------------------------
(* The planning events of the registration tools *)

RegistrationToolStep == ToolsSpawnAgent \/ ToolsCreateTask

Stored == sub_agents' # sub_agents \/ tasks' # tasks

\* C37 (as claimed): spawn_agent passes one AgentSpawned event to _emit iff
\* the worker was stored, with the color assigned to the worker; create_task
\* passes one TaskCreated event iff the task was stored; a call that returns
\* the failure text has emitted no event.
C37_EventsOnSuccessAsClaimed ==
    [][RegistrationToolStep =>
          /\ (emitted' # <<>>) <=> Stored
          /\ Len(emitted') <= 1
          /\ (ToolsSpawnAgent /\ Stored) =>
                /\ emitted'[1].kind = "AgentSpawnedEvent"
                /\ emitted'[1].name = Some(sub_agents'[Len(sub_agents')].name)
                /\ emitted'[1].payload = sub_agents'[Len(sub_agents')].color
          /\ (ToolsCreateTask /\ Stored) =>
                /\ emitted'[1].kind = "TaskCreatedEvent"
                /\ emitted'[1].name = tasks'[Len(tasks')].name
          /\ tool_result'.text = Some("Failed") =>
                /\ emitted' = <<>>
                /\ ~Stored]_vars

----------------------------------------------------------------------------
(* planner.py: execute_swarm on the active DynamicRegistry, with observers *)

ExecutionModes == {"swarm", "graph"}

\* the `mode` argument: the two modes and an unknown one
ModeArgs == ExecutionModes \cup {"parallel"}

\* the `entry_task` argument: omitted, empty, a task name, an unknown name
EntryTaskArgs == {None, Some(""), Some("a"), Some("zz")}

\* DynamicRegistry.set_execution_mode raises ValueError
set_execution_mode_raises(mode) == mode \notin ExecutionModes

\* DynamicRegistry.set_entry_task raises ValueError
set_entry_task_raises(task_name) == task_name \notin Keys(tasks)

PlanningCompletedEvent(mode, entry_task) ==
    Event("PlanningCompletedEvent", None, <<mode, entry_task>>)

\* the execute_swarm tool
execute_swarm(mode, entry_task) ==
    LET arg == [name |-> "", mode |-> mode, entry_task |-> entry_task]
    IN  IF set_execution_mode_raises(mode)
        THEN /\ last' = Call("execute_swarm", arg, "InvalidMode")
             /\ UNCHANGED registry_config
             /\ NoEmit
             /\ Returns("Failed")
        ELSE IF Truthy(entry_task) /\ set_entry_task_raises(entry_task[1])
        THEN /\ last' = Call("execute_swarm", arg, "TaskNotFound")
             /\ registry_config' = [registry_config EXCEPT !.execution_mode = mode]
             /\ NoEmit
             /\ Returns("Failed")
        ELSE /\ last' = Call("execute_swarm", arg, Ok)
             /\ registry_config' =
                    [execution_mode |-> mode,
                     entry_task |-> IF Truthy(entry_task)
                                        THEN entry_task
                                        ELSE registry_config.entry_task]
             /\ EmitEffect(PlanningCompletedEvent(mode, entry_task))
             /\ IF EmitRaises(PlanningCompletedEvent(mode, entry_task))
                THEN AfterEmitRaised(PlanningCompletedEvent(mode, entry_task))
                ELSE Returns("Planning complete")

PlanFrame ==
    UNCHANGED <<tm_tasks, clock, callbacks, event_log, threads, run_vars, stream_vars,
                build_vars, current_task>>

PlanAddHook == ToolsAddHook

PlanSpawnAgent ==
    /\ register_agent(AgentDefinition("w1", "role", None, <<>>, None, None))
    /\ NoEmit
    /\ UNCHANGED <<tasks, tool_result, registry_config>>
    /\ PlanFrame

PlanCreateTask ==
    /\ \E name \in {"a", "b"} : register_task(TaskDefinition(name, "w1", None, <<>>))
    /\ NoEmit
    /\ UNCHANGED <<sub_agents, color_index, tool_result, registry_config>>
    /\ PlanFrame

PlanExecuteSwarm ==
    /\ \E mode \in ModeArgs, entry_task \in EntryTaskArgs : execute_swarm(mode, entry_task)
    /\ UNCHANGED <<sub_agents, tasks, color_index>>
    /\ PlanFrame

NextPlan ==
    \/ PlanAddHook
    \/ PlanSpawnAgent
    \/ PlanCreateTask
    \/ PlanExecuteSwarm

SpecPlan == Init /\ [][NextPlan]_vars

\* C38 (as claimed): whenever execute_swarm returns the failure text, the
\* execution mode and the entry task of the registry are as they were before
\* the call and no PlanningCompleted event was emitted.
C38_AtomicOnFailureAsClaimed ==
    [][(PlanExecuteSwarm /\ tool_result'.text = Some("Failed")) =>
          /\ registry_config' = registry_config
          /\ emitted' = <<>>]_vars

----------------------------------------------------------------------------
(* dynamic.py: _execute_graph / _execute_swarm, the execution of the built
   workflow; with callbacks registered the engine's stream is consumed and
   task events are derived from it *)

HookedNames == {"a", "b"}

\* the number of events the engine's stream yields
MaxHookedEvents == 4

\* the events of the engine's stream: node events carry a node_id (copied to
\* task_name by TaskGraph.stream_async), a node stop carries the status of
\* the node, the result event carries the key "result"
NodeStart(n) ==
    [type |-> "multiagent_node_start", node_id |-> Some(n), status |-> None, result |-> FALSE]

NodeStream(n) ==
    [type |-> "multiagent_node_stream", node_id |-> Some(n), status |-> None, result |-> FALSE]

NodeStop(n, status) ==
    [type |-> "multiagent_node_stop", node_id |-> Some(n), status |-> Some(status),
     result |-> FALSE]

ResultEvent ==
    [type |-> "multiagent_result", node_id |-> None, status |-> None, result |-> TRUE]

Produced(event) == \E i \in DOMAIN engine_events : engine_events[i] = event

Started(n) == Produced(NodeStart(n))

Stopped(n) == \E status \in {COMPLETED, FAILED} : Produced(NodeStop(n, status))

Running(n) == Started(n) /\ ~Stopped(n)

\* what the engine may yield next: the two nodes are independent and run in
\* parallel, each starts once, streams while it runs and stops once; the
\* result event comes last, when no node is running
EngineMayYield(event) ==
    /\ ~Produced(ResultEvent)
    /\ \/ \E n \in HookedNames : ~Started(n) /\ event = NodeStart(n)
       \/ \E n \in HookedNames : Running(n) /\ event = NodeStream(n)
       \/ \E n \in HookedNames, status \in {COMPLETED, FAILED} :
             Running(n) /\ event = NodeStop(n, status)
       \/ /\ \A n \in HookedNames : ~Running(n)
          /\ event = ResultEvent

\* DynamicSwarm._emit for the events of one statement sequence, in order
EmitAll(events) ==
    /\ emitted' = events
    /\ event_log' = event_log \o events
    /\ IF events # <<>> /\ has_callbacks
          THEN delivered' = invoke_callbacks(events[Len(events)])
          ELSE UNCHANGED delivered

\* the events emitted when the loop sees an event of the task `task_name`
TaskSwitchEvents(task_name) ==
    IF task_name # None /\ task_name # current_task
        THEN (IF current_task # None
                 THEN <<TaskCompletedEvent(current_task[1], None)>>
                 ELSE <<>>)
             \o <<TaskStartedEvent(task_name[1])>>
        ELSE <<>>

HookedFrame ==
    UNCHANGED <<tm_tasks, clock, sub_agents, tasks, color_index, threads, run_vars,
                build_vars, tool_result, registry_config, stream, planning_result,
                execution_error, final_response, swarm_result, raised>>

\* an observer that returns is registered before the run
HookedAddHook ==
    /\ pc = "idle"
    /\ ~Registered("A")
    /\ register_hooks("A")
    /\ last' = Call("add_hook", NameArg("A"), Ok)
    /\ NoEmit
    /\ UNCHANGED <<pc, current_task, engine_events, execution_result, calls, event_log>>
    /\ HookedFrame

\* `else: return await graph.execute_async(query)`
HookedExecuteDirectly ==
    /\ pc = "idle"
    /\ ~has_callbacks
    /\ Invoked("engine")
    /\ execution_result' = Some("converted")
    /\ pc' = "done"
    /\ NoEmit
    /\ UNCHANGED <<current_task, engine_events, event_log, callbacks, last>>
    /\ HookedFrame

\* `if self._hook_registry.has_callbacks():` the stream is opened, which
\* starts the execution of the graph
HookedStreamStart ==
    /\ pc = "idle"
    /\ has_callbacks
    /\ Invoked("engine")
    /\ pc' = "streaming"
    /\ NoEmit
    /\ UNCHANGED <<current_task, engine_events, execution_result, event_log, callbacks, last>>
    /\ HookedFrame

\* one iteration of `async for event in graph.stream_async(query)`
HookedEvent ==
    /\ pc = "streaming"
    /\ Len(engine_events) < MaxHookedEvents
    /\ \E event \in {NodeStart(n) : n \in HookedNames}
                    \cup {NodeStream(n) : n \in HookedNames}
                    \cup {NodeStop(n, st) : n \in HookedNames, st \in {COMPLETED, FAILED}}
                    \cup {ResultEvent} :
          /\ EngineMayYield(event)
          /\ engine_events' = Append(engine_events, event)
          /\ EmitAll(TaskSwitchEvents(event.node_id))
          /\ current_task' = IF event.node_id # None THEN event.node_id ELSE current_task
          /\ execution_result' = IF event.result THEN Some("result") ELSE execution_result
    /\ UNCHANGED <<pc, calls, callbacks, last>>
    /\ HookedFrame

\* the stream ends: the last task is reported completed and the result is
\* converted, or, without a result, execute_async runs the graph
HookedStreamEnds ==
    /\ pc = "streaming"
    /\ \A n \in HookedNames : ~Running(n)
    /\ EmitAll(IF current_task # None
                  THEN <<TaskCompletedEvent(current_task[1], None)>>
                  ELSE <<>>)
    /\ IF execution_result # None
          THEN /\ execution_result' = Some("converted")
               /\ UNCHANGED calls
          ELSE /\ Invoked("engine")
               /\ execution_result' = Some("converted")
    /\ pc' = "done"
    /\ UNCHANGED <<current_task, engine_events, callbacks, last>>
    /\ HookedFrame

NextHooked ==
    \/ HookedAddHook
    \/ HookedExecuteDirectly
    \/ HookedStreamStart
    \/ HookedEvent
    \/ HookedStreamEnds

SpecHooked == Init /\ [][NextHooked]_vars

\* C39 (as claimed): in one run the workflow is handed to the engine at most
\* once, with or without observers, whatever events the stream yields.
C39_ExecutedOnceAsClaimed == calls.engine <= 1

\* the positions of the events of `kind` for the task `name` in the log
LoggedAt(kind, name) ==
    {i \in DOMAIN event_log : event_log[i].kind = kind /\ event_log[i].name = name}

\* C40 (as claimed): for every order of the engine's node events each task
\* gets at most one TaskStarted and at most one TaskCompleted, TaskCompleted
\* is emitted only for a task whose node stopped with status Completed, and
\* when the run has ended every TaskStarted is followed by the TaskCompleted
\* of its task.
C40_TaskEventsAsClaimed ==
    \A name \in HookedNames :
        /\ Cardinality(LoggedAt("TaskStartedEvent", name)) <= 1
        /\ Cardinality(LoggedAt("TaskCompletedEvent", name)) <= 1
        /\ LoggedAt("TaskCompletedEvent", name) # {} => Produced(NodeStop(name, COMPLETED))
        /\ pc = "done" =>
              \A i \in LoggedAt("TaskStartedEvent", name) :
                  \E j \in LoggedAt("TaskCompletedEvent", name) : j > i

====
